---- MODULE Spec2Model ----
(***************************************************************************)
(* Flask-MultiAuth: provider registry, canonical provider map, provider-   *)
(* map validation and the resolution engine (handle_auth_info), modelled   *)
(* from flask_multiauth/core.py and flask_multiauth/util.py.               *)
(*                                                                         *)
(* Python values are modelled as follows.                                  *)
(*   dict            a function whose DOMAIN is the set of keys            *)
(*   list / tuple    a sequence                                            *)
(*   raised error    a record whose exc field names the exception class;   *)
(*                   exc = "None" means the call returned normally         *)
(*   dict iteration  a sequence enumerating the keys, chosen by the caller *)
(*                   (the order of a Python 2 dict is arbitrary)           *)
(***************************************************************************)
EXTENDS Integers, Sequences, FiniteSets, TLC

VARIABLES
    config,         \* app.config: the MULTIAUTH_* options
    extensions,     \* app.extensions: holds key "multiauth" once init_app ran
    user_callback,  \* MultiAuth.user_callback
    last,           \* the last call made on the extension and what it did
    args,           \* the arguments of the helper-function call under study
    session,        \* flask.session of the browser
    flashes,        \* the messages flashed so far
    phase,          \* per unit of work: its application context's life
    g,              \* per unit of work: flask.g of its application context
    connections,    \* the LDAP connections initialised so far
    ldap_ctx_stack  \* per unit of work: _ldap_ctx_stack

vars == <<config, extensions, user_callback, last, args, session, flashes,
          phase, g, connections, ldap_ctx_stack>>

\* the browser side of a request
webvars == <<session, flashes>>

\* the LDAP client layer
ldapvars == <<phase, g, connections, ldap_ctx_stack>>

\* no helper call, no request and no LDAP use is under study
NoArgs == args = "None"

NoRequest == session = << >> /\ flashes = << >>

NoLdap == phase = << >> /\ g = << >> /\ connections = << >> /\ ldap_ctx_stack = << >>

---------------------------------------------------------------------------
(* Bounds of the model *)

\* longest list/tuple/set given as a value of MULTIAUTH_PROVIDER_MAP
MaxLinks == 2

\* most provider entries in one MULTIAUTH_*_PROVIDERS option
MaxEntries == 3

---------------------------------------------------------------------------
(* Generic helpers for Python containers *)

EmptyDict == [k \in {} |-> "None"]

None == "None"

\* dict without one key (dict.pop on an existing key, as far as the dict goes)
DictWithout(d, key) == [k \in DOMAIN d \ {key} |-> d[k]]

\* d[key] = value
DictSet(d, key, value) == [k \in DOMAIN d \cup {key} |-> IF k = key THEN value ELSE d[k]]

\* dict.setdefault(key, value)
SetDefault(d, key, value) == IF key \in DOMAIN d THEN d ELSE DictSet(d, key, value)

\* all enumerations of a finite set without repetition
Orders(S) == {f \in [1..Cardinality(S) -> S] : \A i, j \in 1..Cardinality(S) : i # j => f[i] # f[j]}

\* all sequences over S of length at most n
SeqsUpTo(S, n) == UNION {[1..k -> S] : k \in 0..n}

Range(f) == {f[i] : i \in DOMAIN f}

---------------------------------------------------------------------------
(* Names used in configurations *)

NamePool == <<"a", "b", "c", "d">>

\* names of configured authentication providers
AuthNames == {"a", "b"}

\* names of configured user (identity) providers
IdpNames == {"x", "y"}

\* a field mapping of a link: target key -> source key
SomeMapping == [id |-> "uid"]

---------------------------------------------------------------------------
(* util.get_canonical_provider_map                                         *)
(* A configured value is tagged with its Python type:                      *)
(*   [kind |-> "str", s |-> name]         a string                         *)
(*   [kind |-> "dict", d |-> link]        a link object (a dict)           *)
(*   [kind |-> "list"|"tuple"|"set", items |-> seq]   a container; items   *)
(*                                        lists it in iteration order      *)

Str(s) == [kind |-> "str", s |-> s]

Dict(d) == [kind |-> "dict", d |-> d]

\* isinstance(identity_providers, (list, tuple, set))
IsContainer(v) == v.kind \in {"list", "tuple", "set"}

\* isinstance(p, string_types)
IsString(p) == p.kind = "str"

\* {'identity_provider': p} if isinstance(p, string_types) else p
CanonicalLink(p) == IF IsString(p) THEN [identity_provider |-> p.s] ELSE p.d

\* CanonicalLinks building the tuple back to front
CanonicalLinks_reversed(identity_providers) ==
    LET items == IF ~IsContainer(identity_providers)
                 THEN <<identity_providers>>
                 ELSE identity_providers.items
    IN  [i \in 1..Len(items) |-> CanonicalLink(items[Len(items) + 1 - i])]

\* the tuple built for one auth provider's configured value
CanonicalLinks(identity_providers) ==
    LET items == IF ~IsContainer(identity_providers)
                 THEN <<identity_providers>>
                 ELSE identity_providers.items
    IN  [i \in 1..Len(items) |-> CanonicalLink(items[i])]

get_canonical_provider_map(provider_map) ==
    [auth_provider_name \in DOMAIN provider_map |->
        CanonicalLinks(provider_map[auth_provider_name])]

---------------------------------------------------------------------------
(* Provider classes known to the process, and util.resolve_provider_type   *)

\* the provider classes: the base they derive from, their type identifier
\* and their multi_instance flag
ClassTable ==
    [FooProvider       |-> [base |-> "AUTH", type |-> "foo",    multi_instance |-> TRUE],
     UniqueProvider    |-> [base |-> "AUTH", type |-> "unique", multi_instance |-> FALSE],
     DirectoryProvider |-> [base |-> "USER", type |-> "dir",    multi_instance |-> TRUE],
     SingleDirectory   |-> [base |-> "USER", type |-> "single", multi_instance |-> FALSE],
     GroupDirectory    |-> [base |-> "USER", type |-> "groups", multi_instance |-> TRUE]]

ClassesOf(base) == {c \in DOMAIN ClassTable : ClassTable[c].base = base}

\* list(iter_entry_points(base._entry_point, type_)): the classes the
\* installed entry points of the base's namespace load for a type name.
\* "dup" is a name two distributions define, "alien" a name whose entry
\* point loads a class of the other base, every other unknown name has none.
EntryPoints(base, type_) ==
    IF type_ = "dup" THEN
        IF base = "AUTH" THEN <<"FooProvider", "UniqueProvider">>
                         ELSE <<"DirectoryProvider", "SingleDirectory">>
    ELSE IF type_ = "alien" THEN
        IF base = "AUTH" THEN <<"DirectoryProvider">> ELSE <<"FooProvider">>
    ELSE IF \E c \in ClassesOf(base) : ClassTable[c].type = type_ THEN
        <<CHOOSE c \in ClassesOf(base) : ClassTable[c].type = type_>>
    ELSE << >>

\* a value of a settings dict's 'type' key: a class or a type name
TypeName(id) == [isclass |-> FALSE, id |-> id]

TypeClass(c) == [isclass |-> TRUE, id |-> c]

\* registry=None
NoRegistry == [given |-> FALSE]

resolve_provider_type(base, type_, registry) ==
    IF type_.isclass THEN
        IF ClassTable[type_.id].base # base
        THEN [exc |-> "TypeError", cls |-> None, error |-> "not_subclass", named |-> type_.id]
        ELSE [exc |-> None, cls |-> type_.id, error |-> None, named |-> None]
    ELSE
        LET entry_points == EntryPoints(base, type_.id)
            found == IF registry.given /\ type_.id \in DOMAIN registry.types
                     THEN [exc |-> None, cls |-> registry.types[type_.id], error |-> None, named |-> None]
                     ELSE IF Len(entry_points) = 0
                     THEN [exc |-> "ValueError", cls |-> None, error |-> "unknown_type", named |-> type_.id]
                     ELSE IF Len(entry_points) # 1
                     THEN [exc |-> "RuntimeError", cls |-> None, error |-> "not_unique", named |-> type_.id]
                     ELSE [exc |-> None, cls |-> entry_points[1], error |-> None, named |-> None]
        IN  IF found.exc # None THEN found
            ELSE IF ClassTable[found.cls].base # base
            THEN [exc |-> "TypeError", cls |-> None, error |-> "not_subclass", named |-> found.cls]
            ELSE found

---------------------------------------------------------------------------
(* MultiAuth._create_providers                                             *)

\* settings_copy without the copy: the loop works on the configuration's dict
settings_copy_alias(settings) == [value |-> settings, shared |-> TRUE]

\* settings.copy(): a new dict with the same items, sharing nothing with
\* the dict held by the configuration
settings_copy(settings) == [value |-> settings, shared |-> FALSE]

\* cls(self, name, settings): the provider instance
NewProvider(cls, name, settings) == [cls |-> cls, name |-> name, settings |-> settings]

\* RefusesInstance with the flag read the wrong way round
RefusesInstance_flipped(cls, provider_types) ==
    ClassTable[cls].multi_instance /\ ClassTable[cls].type \in provider_types

\* not cls.multi_instance and cls.type in provider_types
RefusesInstance(cls, provider_types) ==
    ~ClassTable[cls].multi_instance /\ ClassTable[cls].type \in provider_types

\* The loop of _create_providers over the entries `cfg` of one
\* MULTIAUTH_*_PROVIDERS option, visited in the order `order`.  Returns
\*   exc, error, named  the outcome (named: the type the error message names)
\*   providers          the dict built so far (the return value if exc = None)
\*   cfg                the option's dict as the loop leaves it
RECURSIVE CreateLoop(_, _, _, _, _, _)
CreateLoop(cfg, order, i, base, providers, provider_types) ==
    IF i > Len(order) THEN
        [exc |-> None, error |-> None, named |-> None, providers |-> providers, cfg |-> cfg]
    ELSE
        LET name == order[i]
            copied == settings_copy(cfg[name])
        IN  IF "type" \notin DOMAIN copied.value THEN
                [exc |-> "KeyError", error |-> "no_type_key", named |-> None,
                 providers |-> providers, cfg |-> cfg]
            ELSE
                LET settings == DictWithout(copied.value, "type")
                    cfg_after == IF copied.shared THEN DictSet(cfg, name, settings) ELSE cfg
                    resolved == resolve_provider_type(base, copied.value["type"], NoRegistry)
                IN  IF resolved.exc # None THEN
                        [exc |-> resolved.exc, error |-> resolved.error, named |-> resolved.named,
                         providers |-> providers, cfg |-> cfg_after]
                    ELSE IF RefusesInstance(resolved.cls, provider_types) THEN
                        [exc |-> "RuntimeError", error |-> "multiple_instances",
                         named |-> ClassTable[resolved.cls].type,
                         providers |-> providers, cfg |-> cfg_after]
                    ELSE
                        CreateLoop(cfg_after, order, i + 1, base,
                                   DictSet(providers, name, NewProvider(resolved.cls, name, settings)),
                                   provider_types \cup {ClassTable[resolved.cls].type})

create_providers(cfg, order, base) == CreateLoop(cfg, order, 1, base, EmptyDict, {})

---------------------------------------------------------------------------
(* util.validate_provider_map and core._MultiAuthState                     *)

\* _MultiAuthState.__init__: the attributes a state object is given
MultiAuthState(multiauth, app) ==
    [multiauth |-> multiauth, app |-> app,
     auth_providers |-> EmptyDict, user_providers |-> EmptyDict, provider_map |-> EmptyDict]

\* every link of every entry of a canonical provider map
AllLinks(provider_map) == UNION {Range(provider_map[k]) : k \in DOMAIN provider_map}

\* validate_provider_map with the first difference taken the wrong way round
validate_provider_map_flipped(state) ==
    LET invalid_keys == DOMAIN state.provider_map \ DOMAIN state.auth_providers
    IN  IF invalid_keys # {} THEN
            [exc |-> "ValueError", error |-> "not_linked", names |-> invalid_keys]
        ELSE IF \E p \in AllLinks(state.provider_map) : "identity_provider" \notin DOMAIN p THEN
            [exc |-> "KeyError", error |-> "identity_provider", names |-> {}]
        ELSE
            [exc |-> "AttributeError", error |-> "identity_providers", names |-> {}]

\* Returns the outcome: exc = None when the function returns, otherwise the
\* exception it raises; names: the names the error message joins.
\* An attribute the state object lacks raises AttributeError, a key a link
\* lacks raises KeyError.
validate_provider_map(state) ==
    LET invalid_keys == DOMAIN state.auth_providers \ DOMAIN state.provider_map
        links == AllLinks(state.provider_map)
    IN  IF invalid_keys # {} THEN
            [exc |-> "ValueError", error |-> "not_linked", names |-> invalid_keys]
        ELSE IF \E p \in links : "identity_provider" \notin DOMAIN p THEN
            [exc |-> "KeyError", error |-> "identity_provider", names |-> {}]
        ELSE IF "identity_providers" \notin DOMAIN state THEN
            [exc |-> "AttributeError", error |-> "identity_providers", names |-> {}]
        ELSE
            LET targeted_providers == {p.identity_provider : p \in links}
                broken == targeted_providers \ DOMAIN state.identity_providers
            IN  IF broken # {}
                THEN [exc |-> "ValueError", error |-> "broken_links", names |-> broken]
                ELSE [exc |-> None, error |-> None, names |-> {}]

---------------------------------------------------------------------------
(* MultiAuth.init_app                                                      *)

K_AUTH == "MULTIAUTH_AUTH_PROVIDERS"

K_USER == "MULTIAUTH_USER_PROVIDERS"

K_MAP == "MULTIAUTH_PROVIDER_MAP"

K_ALL == "MULTIAUTH_ALL_MATCHING_USERS"

K_REQUIRE == "MULTIAUTH_REQUIRE_USER"

\* the app.config.setdefault calls of init_app, in order: <<key, default>>
Defaults ==
    <<  <<K_AUTH, EmptyDict>>,
        <<K_USER, EmptyDict>>,
        <<K_MAP, EmptyDict>>,
        <<"MULTIAUTH_USER_INFO_KEYS", None>>,
        <<"MULTIAUTH_LOGIN_SELECTOR_TEMPLATE", None>>,
        <<"MULTIAUTH_LOGIN_FORM_TEMPLATE", None>>,
        <<"MULTIAUTH_LOGIN_ENDPOINT", "login">>,
        <<"MULTIAUTH_LOGIN_URLS", <<"/login/", "/login/<provider>">> >>,
        <<"MULTIAUTH_SUCCESS_ENDPOINT", "index">>,
        <<"MULTIAUTH_FAILURE_MESSAGE", "Authentication failed: {error}">>,
        <<"MULTIAUTH_FAILURE_CATEGORY", "error">>,
        <<K_ALL, FALSE>>,
        <<K_REQUIRE, TRUE>>  >>

\* the configuration after the setdefault calls
ConfigDefaults(cfg) ==
    [k \in DOMAIN cfg \cup {Defaults[i][1] : i \in DOMAIN Defaults} |->
        IF k \in DOMAIN cfg THEN cfg[k]
        ELSE Defaults[CHOOSE i \in DOMAIN Defaults : Defaults[i][1] = k][2]]

\* The `with app.app_context()` block of init_app.  state is the state
\* object init_app stored, cfg the configuration after the defaults, a and u
\* what the two _create_providers calls do (u counts only if the first call
\* returns).  Returns the state object and the configuration as the block
\* leaves them, and the outcome of the block: the statement that raised
\* (step) and the exception, or exc = None when validation passed.
InitBlock(state, cfg, a, u) ==
    IF a.exc # None THEN
        [state |-> state, config |-> DictSet(cfg, K_AUTH, a.cfg), step |-> "auth_providers",
         exc |-> a.exc, error |-> a.error, names |-> IF a.named = None THEN {} ELSE {a.named}]
    ELSE IF u.exc # None THEN
        [state |-> [state EXCEPT !.auth_providers = a.providers],
         config |-> DictSet(DictSet(cfg, K_AUTH, a.cfg), K_USER, u.cfg),
         step |-> "user_providers",
         exc |-> u.exc, error |-> u.error, names |-> IF u.named = None THEN {} ELSE {u.named}]
    ELSE
        LET filled == [state EXCEPT !.auth_providers = a.providers,
                                    !.user_providers = u.providers,
                                    !.provider_map = get_canonical_provider_map(cfg[K_MAP])]
        IN  [state |-> filled,
             config |-> DictSet(DictSet(cfg, K_AUTH, a.cfg), K_USER, u.cfg),
             step |-> "validate"] @@ validate_provider_map(filled)

\* app.extensions without / with the extension's state
HasState(ext) == "multiauth" \in DOMAIN ext

StoreState_onsuccess(ext, r) == IF r.exc = None THEN DictSet(ext, "multiauth", r.state) ELSE ext

\* state = app.extensions['multiauth'] = _MultiAuthState(self, app): the
\* state object is stored before the with block fills it, so the
\* extensions hold it as the block left it, however the block ended
StoreState(ext, r) == DictSet(ext, "multiauth", r.state)

\* init_app(app)
InitApp ==
    IF HasState(extensions) THEN
        /\ last' = [op |-> "init_app", exc |-> "RuntimeError", error |-> "already_initialized",
                    names |-> {}, step |-> "check"]
        /\ UNCHANGED <<config, extensions, user_callback, args, webvars, ldapvars>>
    ELSE
        \E cfg \in {ConfigDefaults(config)} :
        \E auth_order \in Orders(DOMAIN cfg[K_AUTH]), user_order \in Orders(DOMAIN cfg[K_USER]) :
        \E a \in {create_providers(cfg[K_AUTH], auth_order, "AUTH")} :
        \E u \in {create_providers(cfg[K_USER], user_order, "USER")} :
        \E r \in {InitBlock(MultiAuthState("multiauth", "app"), cfg, a, u)} :
            /\ extensions' = StoreState(extensions, r)
            /\ config' = r.config
            /\ last' = [op |-> "init_app", exc |-> r.exc, error |-> r.error,
                        names |-> r.names, step |-> r.step]
            /\ UNCHANGED <<user_callback, args, webvars, ldapvars>>

---------------------------------------------------------------------------
(* MultiAuth.user_handler, MultiAuth.login_finished, handle_auth_info      *)

\* the functions an application may register as its user callback
Callbacks == {"on_login"}

\* user_handler(callback)
UserHandler(callback) ==
    /\ user_callback' = callback
    /\ last' = [op |-> "user_handler", exc |-> None, returned |-> callback]
    /\ UNCHANGED <<config, extensions, args, webvars, ldapvars>>

\* what the callback is handed: None, one user, or a list of users
ArgNone == [kind |-> "None"]

ArgUser(user) == [kind |-> "user", user |-> user]

ArgList(users) == [kind |-> "list", users |-> users]

login_finished_silent(callback, user) ==
    IF callback = None
    THEN [exc |-> None, calls |-> << >>]
    ELSE [exc |-> None, calls |-> <<[callback |-> callback, arg |-> user]>>]

\* login_finished(user): the assertion, then the call of the callback.
\* calls: the invocations made, each [callback, arg].
login_finished(callback, user) ==
    IF callback = None
    THEN [exc |-> "AssertionError", calls |-> << >>]
    ELSE [exc |-> None, calls |-> <<[callback |-> callback, arg |-> user]>>]

\* the UserInfo a user provider returns for the mapped authentication data
UserInfo(provider, mapping) == [provider |-> provider, mapping |-> mapping]

\* link.get('mapping', {})
LinkMapping(link) == IF "mapping" \in DOMAIN link THEN link["mapping"] ELSE EmptyDict

\* StopsAfterMatch without the break
StopsAfterMatch_never(all_matching) == FALSE

\* `break` after the first user unless MULTIAUTH_ALL_MATCHING_USERS is set
StopsAfterMatch(all_matching) == ~all_matching

\* The loop of handle_auth_info over links, from link i on.  found is the
\* set of link indexes whose provider returns a user for this auth_info
\* (get_user_from_auth returns None for the others).
\* queried: one record per get_user_from_auth call made, in call order.
RECURSIVE ResolveLoop(_, _, _, _, _, _, _)
ResolveLoop(links, i, user_providers, found, all_matching, users, queried) ==
    IF i > Len(links) THEN
        [exc |-> None, users |-> users, queried |-> queried]
    ELSE IF "user_provider" \notin DOMAIN links[i] THEN
        [exc |-> "KeyError", users |-> users, queried |-> queried]
    ELSE IF links[i]["user_provider"] \notin DOMAIN user_providers THEN
        [exc |-> "KeyError", users |-> users, queried |-> queried]
    ELSE
        LET provider == user_providers[links[i]["user_provider"]]
            mapping == LinkMapping(links[i])
            q == [link |-> i, provider |-> provider.name, mapping |-> mapping,
                  returned_user |-> i \in found]
        IN  IF i \notin found THEN
                ResolveLoop(links, i + 1, user_providers, found, all_matching,
                            users, Append(queried, q))
            ELSE IF StopsAfterMatch(all_matching) THEN
                [exc |-> None, users |-> Append(users, UserInfo(provider.name, mapping)),
                 queried |-> Append(queried, q)]
            ELSE
                ResolveLoop(links, i + 1, user_providers, found, all_matching,
                            Append(users, UserInfo(provider.name, mapping)), Append(queried, q))

\* AfterLoop handing an empty list to the callback when all matching users
\* are asked for, whatever MULTIAUTH_REQUIRE_USER says
AfterLoop_emptylist(users, all_matching, require_user, callback) ==
    IF users = << >> /\ require_user /\ ~all_matching THEN
        [exc |-> "UserRetrievalFailed", calls |-> << >>]
    ELSE IF all_matching THEN
        login_finished(callback, ArgList(users))
    ELSE
        login_finished(callback, IF users # << >> THEN ArgUser(users[1]) ELSE ArgNone)

\* AfterLoop raising for no user without reading MULTIAUTH_REQUIRE_USER
AfterLoop_alwaysrequire(users, all_matching, require_user, callback) ==
    IF users = << >> THEN
        [exc |-> "UserRetrievalFailed", calls |-> << >>]
    ELSE IF all_matching THEN
        login_finished(callback, ArgList(users))
    ELSE
        login_finished(callback, ArgUser(users[1]))

\* what handle_auth_info does after the loop
AfterLoop(users, all_matching, require_user, callback) ==
    IF users = << >> /\ require_user THEN
        [exc |-> "UserRetrievalFailed", calls |-> << >>]
    ELSE IF all_matching THEN
        login_finished(callback, ArgList(users))
    ELSE
        login_finished(callback, IF users # << >> THEN ArgUser(users[1]) ELSE ArgNone)

\* handle_auth_info(auth_info) with auth_info.provider.name = name, in an
\* application context of the application.
\* links_known: the provider map had an entry for name.
handle_auth_info(ext, cfg, callback, name, found) ==
    LET base == [op |-> "handle_auth_info", name |-> name, found |-> found,
                 links_known |-> FALSE, links |-> << >>, queried |-> << >>,
                 users |-> << >>, calls |-> << >>]
    IN  IF ~HasState(ext) THEN
            base @@ [exc |-> "AssertionError"]
        ELSE IF name \notin DOMAIN ext["multiauth"].provider_map THEN
            base @@ [exc |-> "KeyError"]
        ELSE
            LET state == ext["multiauth"]
                links == state.provider_map[name]
                loop == ResolveLoop(links, 1, state.user_providers, found, cfg[K_ALL],
                                    << >>, << >>)
                known == [base EXCEPT !.links_known = TRUE, !.links = links,
                                      !.queried = loop.queried, !.users = loop.users]
            IN  IF loop.exc # None THEN
                    known @@ [exc |-> loop.exc]
                ELSE
                    LET done == AfterLoop(loop.users, cfg[K_ALL], cfg[K_REQUIRE], callback)
                    IN  [known EXCEPT !.calls = done.calls] @@ [exc |-> done.exc]

\* the link indexes a choice of `found` can name for this auth provider
LinkIndexes(ext, name) ==
    IF HasState(ext) /\ name \in DOMAIN ext["multiauth"].provider_map
    THEN DOMAIN ext["multiauth"].provider_map[name]
    ELSE {}

ReadLink_setdefault(link) == SetDefault(link, "mapping", EmptyDict)

\* the link after link['user_provider'] and link.get('mapping', {}) have
\* read it: reading leaves it as it is
ReadLink(link) == link

\* app.extensions after handle_auth_info has gone through the links of
\* auth provider name it queried
AfterResolution(ext, name, queried) ==
    IF queried = << >> THEN ext
    ELSE [ext EXCEPT !["multiauth"].provider_map[name] =
              [i \in DOMAIN @ |->
                  IF \E q \in Range(queried) : q.link = i THEN ReadLink(@[i]) ELSE @[i]]]

HandleAuthInfo(name, found) ==
    \E r \in {handle_auth_info(extensions, config, user_callback, name, found)} :
        /\ last' = r
        /\ extensions' = AfterResolution(extensions, name, r.queried)
        /\ UNCHANGED <<config, user_callback, args, webvars, ldapvars>>

---------------------------------------------------------------------------
(* The application: a configuration, then init_app, user_handler and       *)
(* handle_auth_info in any order.                                          *)

\* a provider entry of the configuration with the given type name
Settings(type_) == [type |-> TypeName(type_), foo |-> "bar"]

\* the MULTIAUTH_AUTH_PROVIDERS options tried: any subset of the names with
\* multi-instance providers, and two providers of the single-instance type
MainAuthConfigs ==
    UNION {[S -> {Settings("foo")}] : S \in SUBSET AuthNames}
        \cup {[n \in AuthNames |-> Settings("unique")]}

MainUserConfigs ==
    UNION {[S -> {Settings("dir")}] : S \in SUBSET IdpNames}
        \cup {[n \in IdpNames |-> Settings("single")]}

\* the elements of a configured list of links
MainElements ==
    {Str("x"), Str("y"),
     Dict([user_provider |-> "x"]),
     Dict([user_provider |-> "y", mapping |-> SomeMapping]),
     Dict([identity_provider |-> "y"])}

List(items) == [kind |-> "list", items |-> items]

\* the values MULTIAUTH_PROVIDER_MAP gives auth provider "a", and "b"
MainValuesA == MainElements \cup {List(s) : s \in SeqsUpTo(MainElements, MaxLinks)}

MainValuesB == {Str("x"), List(<< >>), Dict([user_provider |-> "y"])}

MainMaps ==
    {EmptyDict}
        \cup {[k \in {"a"} |-> v] : v \in MainValuesA}
        \cup {[k \in {"b"} |-> w] : w \in MainValuesB}
        \cup {[k \in {"a", "b"} |-> IF k = "a" THEN vw[1] ELSE vw[2]] :
                 vw \in MainValuesA \X MainValuesB}

\* the two policy flags: both left to their defaults, or both set
MainFlags ==
    {EmptyDict} \cup {(K_ALL :> f[1]) @@ (K_REQUIRE :> f[2]) : f \in BOOLEAN \X BOOLEAN}

MainConfigs ==
    {(K_AUTH :> c[1]) @@ (K_USER :> c[2]) @@ (K_MAP :> c[3]) @@ c[4] :
        c \in MainAuthConfigs \X MainUserConfigs \X MainMaps \X MainFlags}

Start == [op |-> "start", exc |-> None]

Init ==
    /\ config \in MainConfigs
    /\ extensions = EmptyDict
    /\ user_callback = None
    /\ last = Start
    /\ NoArgs /\ NoRequest /\ NoLdap

Next ==
    \/ InitApp
    \/ \E callback \in Callbacks : UserHandler(callback)
    \/ \E name \in AuthNames : \E found \in SUBSET LinkIndexes(extensions, name) :
           HandleAuthInfo(name, found)

Spec == Init /\ [][Next]_vars

---------------------------------------------------------------------------
(* get_canonical_provider_map on its own, over the configured values it    *)
(* accepts                                                                 *)

\* the link objects tried
LinkDicts ==
    UNION {{[user_provider |-> p],
            [user_provider |-> p, mapping |-> SomeMapping],
            [identity_provider |-> p],
            [identity_provider |-> p, mapping |-> SomeMapping]} : p \in IdpNames}

CanonElements == {Str(p) : p \in IdpNames} \cup {Dict(d) : d \in LinkDicts}

\* a set holds strings only (a dict is not hashable) and no string twice
CanonSets ==
    {[kind |-> "set", items |-> s] :
        s \in {t \in SeqsUpTo({Str(p) : p \in IdpNames}, MaxLinks) :
                  \A i, j \in DOMAIN t : i # j => t[i] # t[j]}}

CanonValues ==
    CanonElements
        \cup {[kind |-> k[1], items |-> k[2]] :
                 k \in {"list", "tuple"} \X SeqsUpTo(CanonElements, MaxLinks)}
        \cup CanonSets

\* a second entry of the provider map, with a short value
CanonValuesB == CanonElements \cup {List(<< >>), List(<<Str("y"), Str("x")>>)}

CanonMaps ==
    {EmptyDict}
        \cup {[k \in {"a"} |-> v] : v \in CanonValues}
        \cup {[k \in {"a", "b"} |-> IF k = "a" THEN vw[1] ELSE vw[2]] :
                 vw \in CanonValues \X CanonValuesB}

InitCanon ==
    /\ config \in {(K_MAP :> m) : m \in CanonMaps}
    /\ extensions = EmptyDict
    /\ user_callback = None
    /\ last = Start
    /\ NoArgs /\ NoRequest /\ NoLdap

\* get_canonical_provider_map(current_app.config['MULTIAUTH_PROVIDER_MAP'])
GetCanonicalProviderMap ==
    /\ last' = [op |-> "get_canonical_provider_map", exc |-> None,
                input |-> config[K_MAP],
                result |-> get_canonical_provider_map(config[K_MAP])]
    /\ UNCHANGED <<config, extensions, user_callback, args, webvars, ldapvars>>

NextCanon == GetCanonicalProviderMap

SpecCanon == InitCanon /\ [][NextCanon]_vars

---------------------------------------------------------------------------
(* _create_providers on its own (called in an application context, as the  *)
(* tests do), over provider entries of every kind                          *)

\* the names of the entries of one option
EntryNames == {NamePool[i] : i \in 1..MaxEntries}

\* the values of 'type' tried for an authentication provider: the two
\* registered names, an unknown name, an ambiguous name, a name that loads a
\* class of the other base, and classes given directly
AuthTypes ==
    {TypeName("foo"), TypeName("unique"), TypeName("nope"), TypeName("dup"),
     TypeName("alien"), TypeClass("FooProvider"), TypeClass("UniqueProvider"),
     TypeClass("DirectoryProvider")}

\* the settings of an entry: a type and one more setting, or no type at all
AuthSettings == {[type |-> t, foo |-> "bar"] : t \in AuthTypes} \cup {[foo |-> "bar"]}

AuthEntries == UNION {[S -> AuthSettings] : S \in SUBSET EntryNames}

UserEntries ==
    {EmptyDict, [n \in IdpNames |-> Settings("single")], [n \in IdpNames |-> Settings("dir")]}

InitProviders ==
    /\ config \in {(K_AUTH :> c[1]) @@ (K_USER :> c[2]) : c \in AuthEntries \X UserEntries}
    /\ extensions = EmptyDict
    /\ user_callback = None
    /\ last = Start
    /\ NoArgs /\ NoRequest /\ NoLdap

OptionKey(key) == IF key = "AUTH" THEN K_AUTH ELSE K_USER

\* self._create_providers(key, base), the dict of the option being
\* iterated in the order `order`
CreateProviders(key, order) ==
    \E r \in {create_providers(config[OptionKey(key)], order, key)} :
        /\ config' = DictSet(config, OptionKey(key), r.cfg)
        /\ last' = [op |-> "_create_providers", key |-> key, order |-> order,
                    entries |-> config[OptionKey(key)],
                    exc |-> r.exc, error |-> r.error, named |-> r.named,
                    providers |-> r.providers]
        /\ UNCHANGED <<extensions, user_callback, args, webvars, ldapvars>>

NextProviders ==
    \E key \in {"AUTH", "USER"} : \E order \in Orders(DOMAIN config[OptionKey(key)]) :
        CreateProviders(key, order)

SpecProviders == InitProviders /\ [][NextProviders]_vars

---------------------------------------------------------------------------
(* Properties of handle_auth_info, checked under Spec                      *)

Handled == last.op = "handle_auth_info"

\* the call reached the links of its auth provider
ReachedLinks == Handled /\ last.links_known

\* every link of the auth provider had its provider asked, and none of
\* them returned a user
EveryProviderReturnedNone ==
    /\ ReachedLinks
    /\ Len(last.queried) = Len(last.links)
    /\ \A i \in DOMAIN last.queried : ~last.queried[i].returned_user

\* the users returned by the calls made, in call order
ReturnedUsers(queried) ==
    LET matching == SelectSeq(queried, LAMBDA q : q.returned_user)
    IN  [i \in 1..Len(matching) |-> UserInfo(matching[i].provider, matching[i].mapping)]

\* the calls were made on the links 1, 2, ... in this order
InLinkOrder(queried) == \A i \in DOMAIN queried : queried[i].link = i

\* the provider a link names, under either key in use
LinkTargets(link) == {link[k] : k \in DOMAIN link \cap {"identity_provider", "user_provider"}}

\* every link of the auth provider names a provider, and a registered one
LinksNameRegistered ==
    \A i \in DOMAIN last.links :
        /\ LinkTargets(last.links[i]) # {}
        /\ LinkTargets(last.links[i]) \subseteq DOMAIN extensions["multiauth"].user_providers

\* C1: with MULTIAUTH_REQUIRE_USER true, when every linked provider returns
\* no user handle_auth_info raises UserRetrievalFailed and the callback is
\* not invoked, whatever MULTIAUTH_ALL_MATCHING_USERS is.
C1_NoUserRaises ==
    (EveryProviderReturnedNone /\ config[K_REQUIRE])
        => (last.exc = "UserRetrievalFailed" /\ last.calls = << >>)

\* two providers asked, none returned a user, all matching users asked for
C1_Witness ==
    /\ EveryProviderReturnedNone
    /\ config[K_REQUIRE] /\ config[K_ALL]
    /\ Len(last.queried) = 2
    /\ user_callback # None
    /\ last.exc = "UserRetrievalFailed"

\* C2: with MULTIAUTH_REQUIRE_USER false, when every linked provider returns
\* no user the registered callback is invoked exactly once and nothing is
\* raised: with None, or with an empty list under ALL_MATCHING_USERS.
C2_NoUserCallsBack ==
    (EveryProviderReturnedNone /\ ~config[K_REQUIRE] /\ user_callback # None)
        => /\ last.exc = None
           /\ last.calls = <<[callback |-> user_callback,
                              arg |-> IF config[K_ALL] THEN ArgList(<< >>) ELSE ArgNone]>>

C2_Witness ==
    /\ EveryProviderReturnedNone
    /\ ~config[K_REQUIRE] /\ ~config[K_ALL]
    /\ Len(last.queried) = 2
    /\ user_callback # None
    /\ last.calls = <<[callback |-> user_callback, arg |-> ArgNone]>>

\* C3: with MULTIAUTH_ALL_MATCHING_USERS true, handle_auth_info asks the
\* provider of every link of the auth provider, in link order, and hands the
\* callback the list of exactly the users returned (unless there is none and
\* a user is required).  Stated for links that all name a registered provider.
C3_AllLinksQueried ==
    (ReachedLinks /\ config[K_ALL] /\ user_callback # None /\ LinksNameRegistered)
        => /\ Len(last.queried) = Len(last.links)
           /\ InLinkOrder(last.queried)
           /\ (ReturnedUsers(last.queried) # << >> \/ ~config[K_REQUIRE])
                => /\ last.exc = None
                   /\ last.calls = <<[callback |-> user_callback,
                                      arg |-> ArgList(ReturnedUsers(last.queried))]>>

\* C4: with MULTIAUTH_ALL_MATCHING_USERS false, the callback gets the user
\* of the first link, in map order, whose provider returns a user, and no
\* provider of a later link is asked after that.
C4_FirstMatchWins ==
    (ReachedLinks /\ ~config[K_ALL] /\ user_callback # None
        /\ \E i \in DOMAIN last.queried : last.queried[i].returned_user)
        => LET first == CHOOSE i \in DOMAIN last.queried :
                            /\ last.queried[i].returned_user
                            /\ \A j \in 1..(i - 1) : ~last.queried[j].returned_user
           IN  /\ Len(last.queried) = first
               /\ InLinkOrder(last.queried)
               /\ last.exc = None
               /\ last.calls = <<[callback |-> user_callback,
                                  arg |-> ArgUser(UserInfo(last.queried[first].provider,
                                                           last.queried[first].mapping))]>>

\* the first of two links matches, the second one would match too
C4_Witness ==
    /\ ReachedLinks /\ ~config[K_ALL] /\ user_callback # None
    /\ Len(last.links) = 2
    /\ last.found = {1, 2}
    /\ Len(last.queried) = 1
    /\ last.queried[1].returned_user
    /\ Len(last.calls) = 1

---------------------------------------------------------------------------
(* Properties of validate_provider_map as init_app calls it, under Spec    *)

\* init_app got as far as validate_provider_map(state)
Validated == last.op = "init_app" /\ last.step = "validate"

TheState == extensions["multiauth"]

\* the auth providers the provider map has no entry for
Unlinked == DOMAIN TheState.auth_providers \ DOMAIN TheState.provider_map

\* the providers named by links that are not registered
BrokenRefs ==
    UNION {LinkTargets(p) : p \in AllLinks(TheState.provider_map)}
        \ DOMAIN TheState.user_providers

\* C5 as stated: with unlinked auth providers and broken references both
\* present, one error names all of them.
C5_ReportsEverything ==
    (Validated /\ Unlinked # {} /\ BrokenRefs # {})
        => /\ last.exc = "ValueError"
           /\ Unlinked \subseteq last.names
           /\ BrokenRefs \subseteq last.names

\* C5: when auth providers are missing from the map, validation fails with
\* one ValueError naming exactly the unlinked auth providers (and none of
\* the broken references).
C5_ReportsUnlinkedOnly ==
    (Validated /\ Unlinked # {})
        => /\ last.exc = "ValueError"
           /\ last.error = "not_linked"
           /\ last.names = Unlinked

C5_Witness ==
    /\ Validated /\ Unlinked # {} /\ BrokenRefs # {}
    /\ last.exc = "ValueError"

\* C7: after validation succeeds every registered auth provider has a
\* non-empty sequence of links, and a map giving a registered auth provider
\* an empty list is rejected by the validation (its ValueError names the
\* provider).
C7_EmptyLinksRejected ==
    Validated
        => /\ last.exc = None
                => \A n \in DOMAIN TheState.auth_providers :
                       /\ n \in DOMAIN TheState.provider_map
                       /\ TheState.provider_map[n] # << >>
           /\ \A n \in DOMAIN TheState.auth_providers \cap DOMAIN TheState.provider_map :
                  TheState.provider_map[n] = << >>
                      => (last.exc = "ValueError" /\ n \in last.names)

---------------------------------------------------------------------------
(* Properties of get_canonical_provider_map, checked under SpecCanon       *)

Canonicalised == last.op = "get_canonical_provider_map"

\* the elements of a configured value, in the order of the input
InputItems(v) == IF v.kind \in {"list", "tuple", "set"} THEN v.items ELSE <<v>>

\* C8 as stated: each auth provider gets one link per element, in input
\* order; a link object is kept, a bare string s becomes a link naming s
\* and holding an empty field mapping.
C8_StringGetsEmptyMapping ==
    Canonicalised
        => /\ DOMAIN last.result = DOMAIN last.input
           /\ \A k \in DOMAIN last.input :
                LET items == InputItems(last.input[k])
                IN  /\ Len(last.result[k]) = Len(items)
                    /\ \A i \in DOMAIN items :
                         IF items[i].kind = "str"
                         THEN last.result[k][i]
                                  = [identity_provider |-> items[i].s, mapping |-> EmptyDict]
                         ELSE last.result[k][i] = items[i].d

\* C8: each auth provider gets one link per element, in input order; a link
\* object is kept, a bare string s becomes a link naming s and holding no
\* field mapping (so the mapping read with link.get('mapping', {}) is empty).
C8_StringGetsBareLink ==
    Canonicalised
        => /\ DOMAIN last.result = DOMAIN last.input
           /\ \A k \in DOMAIN last.input :
                LET items == InputItems(last.input[k])
                IN  /\ Len(last.result[k]) = Len(items)
                    /\ \A i \in DOMAIN items :
                         IF items[i].kind = "str"
                         THEN /\ last.result[k][i] = [identity_provider |-> items[i].s]
                              /\ LinkMapping(last.result[k][i]) = EmptyDict
                         ELSE last.result[k][i] = items[i].d

\* a list mixing a string and a link object, two different elements
C8_Witness ==
    /\ Canonicalised
    /\ "a" \in DOMAIN last.input
    /\ last.input["a"].kind = "list"
    /\ Len(last.input["a"].items) = 2
    /\ last.input["a"].items[1].kind = "dict"
    /\ last.input["a"].items[2].kind = "str"
    /\ last.result["a"][2] = [identity_provider |-> last.input["a"].items[2].s]

---------------------------------------------------------------------------
(* Properties of _create_providers, checked under SpecProviders            *)

Created == last.op = "_create_providers"

\* the class an entry's settings resolve to, or None
ResolvesTo(base, settings) ==
    IF "type" \notin DOMAIN settings THEN None
    ELSE resolve_provider_type(base, settings["type"], NoRegistry).cls

\* the entries of the call that resolve to class c
EntriesOf(c) == {n \in DOMAIN last.entries : ResolvesTo(last.key, last.entries[n]) = c}

\* the single-instance types two entries of the call resolve to
RepeatedSingleTypes ==
    {ClassTable[c].type :
        c \in {d \in ClassesOf(last.key) :
                  ~ClassTable[d].multi_instance /\ Cardinality(EntriesOf(d)) >= 2}}

\* the entries of the call that share a multi-instance type with another
RepeatedMultiEntries ==
    UNION {EntriesOf(c) :
        c \in {d \in ClassesOf(last.key) :
                  ClassTable[d].multi_instance /\ Cardinality(EntriesOf(d)) >= 2}}

\* every entry of the call resolves to a class
AllResolve == \A n \in DOMAIN last.entries : ResolvesTo(last.key, last.entries[n]) # None

\* C9 as stated: two entries of one single-instance type make creation fail
\* with the error naming that type, in every iteration order; two entries of
\* a multi-instance type are both instantiated (read: when creation returns).
C9_DuplicateAlwaysNamed ==
    Created
        => /\ RepeatedSingleTypes # {}
                => /\ last.exc = "RuntimeError"
                   /\ last.error = "multiple_instances"
                   /\ last.named \in RepeatedSingleTypes
           /\ last.exc = None
                => \A n \in RepeatedMultiEntries :
                     /\ n \in DOMAIN last.providers
                     /\ last.providers[n].cls = ResolvesTo(last.key, last.entries[n])

\* C9: two entries of one single-instance type make creation fail in every
\* iteration order, with the error naming that type whenever every entry
\* resolves to a class; when creation returns, every entry is instantiated
\* (two entries of a multi-instance type included).
C9_DuplicateFails ==
    Created
        => /\ RepeatedSingleTypes # {}
                => /\ last.exc # None
                   /\ AllResolve
                        => /\ last.exc = "RuntimeError"
                           /\ last.error = "multiple_instances"
                           /\ last.named \in RepeatedSingleTypes
           /\ last.exc = None
                => \A n \in DOMAIN last.entries :
                     /\ n \in DOMAIN last.providers
                     /\ last.providers[n].cls = ResolvesTo(last.key, last.entries[n])

\* three entries that all resolve, the single-instance type given once by
\* name and once as a class, the second of them visited last
C9_Witness ==
    /\ Created /\ last.key = "AUTH"
    /\ Cardinality(DOMAIN last.entries) = 3
    /\ AllResolve
    /\ RepeatedSingleTypes = {"unique"}
    /\ \E n, m \in DOMAIN last.entries :
          /\ last.entries[n]["type"] = TypeName("unique")
          /\ last.entries[m]["type"] = TypeClass("UniqueProvider")
    /\ DOMAIN last.providers = {last.order[1], last.order[2]}
    /\ last.exc = "RuntimeError" /\ last.named = "unique"

\* C10: every provider is constructed with its entry's settings minus the
\* 'type' key, and the option's dict in the configuration is as it was
\* before the call ('type' still in it).
C10_ConfigKept ==
    Created
        => /\ config[OptionKey(last.key)] = last.entries
           /\ \A n \in DOMAIN last.providers :
                /\ last.providers[n].name = n
                /\ last.providers[n].settings = DictWithout(last.entries[n], "type")
                /\ "type" \in DOMAIN config[OptionKey(last.key)][n]

C10_Witness ==
    /\ Created /\ last.exc = None
    /\ Cardinality(DOMAIN last.providers) >= 2
    /\ \A n \in DOMAIN last.providers :
          /\ last.providers[n].settings = [foo |-> "bar"]
          /\ config[OptionKey(last.key)][n] = last.entries[n]


---------------------------------------------------------------------------
(* util.convert_data                                                       *)

\* dict.get(key): the value, or None when the key is absent
DictGet(d, key) == IF key \in DOMAIN d THEN d[key] ELSE None

\* the optional `keys` argument: not given (None), or a list of keys
NoKeys == [given |-> FALSE]

Keys(S) == [given |-> TRUE, keys |-> S]

\* {key: value for key, value in iteritems(data) if key not in mapped_keys}
PassThrough(data, mapped_keys) == [k \in DOMAIN data \ mapped_keys |-> data[k]]

UpdateMapped_keep(result, data, mapping) ==
    [k \in DOMAIN result \cup DOMAIN mapping |->
        IF k \in DOMAIN result THEN result[k] ELSE DictGet(data, mapping[k])]

\* result.update((target_key, data.get(source_key)) for target_key, source_key
\*               in iteritems(mapping))
UpdateMapped(result, data, mapping) ==
    [k \in DOMAIN result \cup DOMAIN mapping |->
        IF k \in DOMAIN mapping THEN DictGet(data, mapping[k]) ELSE result[k]]

RestrictTo_nofill(result, keys) == [k \in DOMAIN result \cap keys |-> result[k]]

\* the `if keys is not None` block: keep the keys listed, add the missing
\* ones with None
RestrictTo(result, keys) ==
    [k \in keys |-> IF k \in DOMAIN result THEN result[k] ELSE None]

convert_data(data, mapping, keys) ==
    LET mapped_keys == Range(mapping)
        result == UpdateMapped(PassThrough(data, mapped_keys), data, mapping)
    IN  IF keys.given THEN RestrictTo(result, keys.keys) ELSE result

---------------------------------------------------------------------------
(* providers/ldap/util.build_search_filter and get_page_cookie             *)

\* Python truth value of a criterion key or value (strings and None)
Truthy(v) == v \notin {None, ""}

\* util.convert_app_data is imported by providers/ldap/util.py and is not
\* part of flask_multiauth/util.py as given; it is the attribute mapper
\* applied to outgoing search criteria without a key restriction
convert_app_data(app_data, mapping) == convert_data(app_data, mapping, NoKeys)

\* the optional `mapping` argument: `mapping or {}`
NoMapping == [given |-> FALSE]

Mapping(m) == [given |-> TRUE, m |-> m]

MappingOrEmpty(mapping) == IF mapping.given THEN mapping.m ELSE EmptyDict

\* ldap.filter.escape_filter_chars on the strings of the model: the
\* characters \ * ( ) NUL are replaced by their escapes
escape_filter_chars(s) ==
    CASE s = "jo*n" -> "jo\\2an"
      [] s = "a)(b" -> "a\\29\\28b"
      [] OTHER -> s

assert_template_swapped(exact) == IF exact THEN <<"(", "=*", "*)">> ELSE <<"(", "=", ")">>

\* '(%s=%s)' if exact else '(%s=*%s*)', as the pieces around the two %s
assert_template(exact) == IF exact THEN <<"(", "=", ")">> ELSE <<"(", "=*", "*)">>

\* the filled-in templates of the assertions order[i..], in order
RECURSIVE Assertions(_, _, _, _)
Assertions(assertions, order, i, template) ==
    IF i > Len(order) THEN << >>
    ELSE <<template[1], escape_filter_chars(order[i]), template[2],
           escape_filter_chars(assertions[order[i]]), template[3]>>
         \o Assertions(assertions, order, i + 1, template)

\* the (k, v) pairs kept by `if k and v`
KeptAssertions(assertions) ==
    [k \in {j \in DOMAIN assertions : Truthy(j) /\ Truthy(assertions[j])} |-> assertions[k]]

\* lines 175-179: kept is the list of assertions as a dict, order the order
\* in which iteritems listed them.  The filter is the sequence of the
\* pieces of the resulting string.
FilterOf(kept, type_filter, exact, order) ==
    IF DOMAIN kept = {} THEN [exc |-> None, none |-> TRUE, filter |-> << >>]
    ELSE [exc |-> None, none |-> FALSE,
          filter |-> <<"(&">> \o Assertions(kept, order, 1, assert_template(exact))
                     \o <<type_filter, ")">>]

build_search_filter(criteria, type_filter, mapping, exact, order) ==
    FilterOf(KeptAssertions(convert_app_data(criteria, MappingOrEmpty(mapping))),
             type_filter, exact, order)

\* SimplePagedResultsControl.controlType, the RFC 2696 control
PagedResultsType == "1.2.840.113556.1.4.319"

\* another control a server may send (password policy)
OtherControlType == "1.3.6.1.4.1.42.2.27.8.5.1"

\* [ctrl for ctrl in server_ctrls if ctrl.controlType == ...controlType]
RECURSIVE PageControls(_, _)
PageControls(server_ctrls, i) ==
    IF i > Len(server_ctrls) THEN << >>
    ELSE (IF server_ctrls[i].controlType = PagedResultsType THEN <<server_ctrls[i]>> ELSE << >>)
         \o PageControls(server_ctrls, i + 1)

PickCookie_last(page_ctrls) ==
    IF page_ctrls = << >> THEN [exc |-> "LDAPServerError", cookie |-> None]
    ELSE [exc |-> None, cookie |-> page_ctrls[Len(page_ctrls)].cookie]

\* lines 191-193
PickCookie(page_ctrls) ==
    IF page_ctrls = << >> THEN [exc |-> "LDAPServerError", cookie |-> None]
    ELSE [exc |-> None, cookie |-> page_ctrls[1].cookie]

get_page_cookie(server_ctrls) == PickCookie(PageControls(server_ctrls, 1))

---------------------------------------------------------------------------
(* The helper functions on their own, over bounded inputs                  *)

\* number of controls in a server control list
MaxCtrls == 3

FieldNames == {"id", "uid", "mail", "extra"}

DataValues == {"jdoe", "j@x.com"}

DataDicts == UNION {[S -> DataValues] : S \in SUBSET {"id", "uid", "mail"}}

FieldMappings == UNION {[S -> {"uid", "mail", "id"}] : S \in SUBSET {"id", "mail"}}

KeyLists == {NoKeys} \cup {Keys(S) : S \in SUBSET FieldNames}

CriteriaNames == {"name", "email", ""}

CriteriaValues == {"john", "jo*n", "", None}

CriteriaDicts == UNION {[S -> CriteriaValues] : S \in SUBSET CriteriaNames}

CriteriaMappings ==
    {NoMapping} \cup
    {Mapping(m) : m \in UNION {[S -> {"email", "mail"}] : S \in SUBSET {"mail", "name"}}}

TypeFilters == {"(objectClass=user)"}

Cookies == {"", "c1", "c2"}

ServerControls ==
    SeqsUpTo([controlType : {PagedResultsType, OtherControlType}, cookie : Cookies], MaxCtrls)

\* the calls under study: the function and its arguments
ConvertCalls ==
    {[fn |-> "convert_data", data |-> c[1], mapping |-> c[2], keys |-> c[3]] :
        c \in DataDicts \X FieldMappings \X KeyLists}

FilterCalls ==
    {[fn |-> "build_search_filter", criteria |-> c[1], type_filter |-> c[2],
      mapping |-> c[3], exact |-> c[4]] :
        c \in CriteriaDicts \X TypeFilters \X CriteriaMappings \X BOOLEAN}

CookieCalls == {[fn |-> "get_page_cookie", server_ctrls |-> c] : c \in ServerControls}

InitUtil ==
    /\ config = EmptyDict
    /\ extensions = EmptyDict
    /\ user_callback = None
    /\ last = Start
    /\ args \in ConvertCalls \cup FilterCalls \cup CookieCalls
    /\ NoRequest /\ NoLdap

ConvertData ==
    /\ args.fn = "convert_data" /\ last = Start
    /\ last' = [op |-> "convert_data", exc |-> None, data |-> args.data,
                mapping |-> args.mapping, keys |-> args.keys,
                result |-> convert_data(args.data, args.mapping, args.keys)]
    /\ UNCHANGED <<config, extensions, user_callback, args, webvars, ldapvars>>

BuildSearchFilter ==
    /\ args.fn = "build_search_filter" /\ last = Start
    /\ \E kept \in {KeptAssertions(convert_app_data(args.criteria, MappingOrEmpty(args.mapping)))} :
       \E order \in Orders(DOMAIN kept) :
           last' = [op |-> "build_search_filter", criteria |-> args.criteria,
                    type_filter |-> args.type_filter, mapping |-> args.mapping,
                    exact |-> args.exact, order |-> order]
                   @@ build_search_filter(args.criteria, args.type_filter, args.mapping,
                                          args.exact, order)
    /\ UNCHANGED <<config, extensions, user_callback, args, webvars, ldapvars>>

GetPageCookie ==
    /\ args.fn = "get_page_cookie" /\ last = Start
    /\ last' = [op |-> "get_page_cookie", server_ctrls |-> args.server_ctrls]
               @@ get_page_cookie(args.server_ctrls)
    /\ UNCHANGED <<config, extensions, user_callback, args, webvars, ldapvars>>

NextUtil == ConvertData \/ BuildSearchFilter \/ GetPageCookie

SpecUtil == InitUtil /\ [][NextUtil]_vars

---------------------------------------------------------------------------
(* Properties of convert_data, checked under SpecUtil                      *)

Converted == last.op = "convert_data"

\* C11: convert_data with keys given returns a dict whose key set is exactly
\* keys; a key takes its mapped value (the data's value at its source) or,
\* when it is not a mapping target, its passed-through value; a key with
\* neither is present with None; no other key appears.
C11_ExactlyKeys ==
    (Converted /\ last.keys.given) =>
        /\ DOMAIN last.result = last.keys.keys
        /\ \A k \in last.keys.keys :
               last.result[k] =
                   IF k \in DOMAIN last.mapping THEN DictGet(last.data, last.mapping[k])
                   ELSE IF k \in DOMAIN last.data /\ k \notin Range(last.mapping)
                        THEN last.data[k]
                        ELSE None

\* the spec's example: a mapped key, a passed-through key, a key without a
\* value, and a key of data left out of keys
C11_Witness ==
    /\ Converted /\ last.keys.given
    /\ last.data = [uid |-> "jdoe", mail |-> "j@x.com"]
    /\ last.mapping = [id |-> "uid"]
    /\ last.keys.keys = {"id", "mail", "extra"}
    /\ last.result = [id |-> "jdoe", mail |-> "j@x.com", extra |-> None]

\* C12 as claimed: with no key restriction every key of data that is not a
\* mapping source is in the result with its original value, also when the
\* key is a mapping target.
C12_NonSourceUnchanged ==
    (Converted /\ ~last.keys.given) =>
        \A k \in DOMAIN last.data \ Range(last.mapping) :
            k \in DOMAIN last.result /\ last.result[k] = last.data[k]

\* C12 amended: every key of data that is not a mapping source is in the
\* result; it keeps its original value unless it is also a mapping target,
\* and then it has the data's value at its source (None when the source is
\* absent).
C12_NonSourceKeptOrMapped ==
    (Converted /\ ~last.keys.given) =>
        \A k \in DOMAIN last.data \ Range(last.mapping) :
            /\ k \in DOMAIN last.result
            /\ k \notin DOMAIN last.mapping => last.result[k] = last.data[k]
            /\ k \in DOMAIN last.mapping =>
                   last.result[k] = DictGet(last.data, last.mapping[k])

\* a key of data that is a target and not a source, whose source holds
\* another value, next to a key that passes through
C12_Witness ==
    /\ Converted /\ ~last.keys.given
    /\ \E k \in (DOMAIN last.data \cap DOMAIN last.mapping) \ Range(last.mapping) :
           /\ last.mapping[k] \in DOMAIN last.data
           /\ last.data[last.mapping[k]] # last.data[k]
           /\ last.result[k] = last.data[last.mapping[k]]
    /\ \E k \in DOMAIN last.data \ (DOMAIN last.mapping \cup Range(last.mapping)) :
           last.result[k] = last.data[k]

---------------------------------------------------------------------------
(* Properties of build_search_filter and get_page_cookie, under SpecUtil   *)

Filtered == last.op = "build_search_filter"

\* the criteria left after mapping and dropping empty keys and values
Remaining ==
    LET mapped == convert_app_data(last.criteria, MappingOrEmpty(last.mapping))
    IN  [k \in {j \in DOMAIN mapped : j # "" /\ mapped[j] \notin {"", None}} |-> mapped[k]]

\* the i-th assertion of the filter: the five pieces after "(&"
AssertionAt(i) == SubSeq(last.filter, 5 * i - 3, 5 * i + 1)

ExpectedAssertion(k, v) ==
    IF last.exact THEN <<"(", escape_filter_chars(k), "=", escape_filter_chars(v), ")">>
    ELSE <<"(", escape_filter_chars(k), "=*", escape_filter_chars(v), "*)">>

\* C13: build_search_filter returns None exactly when no criterion remains;
\* otherwise one AND expression with exactly one assertion per remaining
\* criterion, then the type filter; each assertion is an equality when
\* exact and a substring match otherwise.
C13_FilterShape ==
    Filtered =>
        LET n == Cardinality(DOMAIN Remaining)
        IN  /\ last.exc = None
            /\ last.none <=> n = 0
            /\ ~last.none =>
                   /\ Len(last.filter) = 5 * n + 3
                   /\ last.filter[1] = "(&"
                   /\ last.filter[5 * n + 2] = last.type_filter
                   /\ last.filter[5 * n + 3] = ")"
                   /\ \A k \in DOMAIN Remaining :
                          Cardinality({i \in 1..n :
                              AssertionAt(i) = ExpectedAssertion(k, Remaining[k])}) = 1

\* two criteria remain, one was dropped, and a value needed escaping
C13_Witness ==
    /\ Filtered /\ ~last.none
    /\ Cardinality(DOMAIN Remaining) = 2
    /\ Cardinality(DOMAIN last.criteria) = 3
    /\ \E k \in DOMAIN Remaining : Remaining[k] = "jo*n"
    /\ ~last.exact

Paged == last.op = "get_page_cookie"

PagedIndexes == {i \in DOMAIN last.server_ctrls : last.server_ctrls[i].controlType = PagedResultsType}

\* C14: get_page_cookie raises LDAPServerError exactly when no control of
\* the list has the RFC 2696 control type; otherwise it returns the cookie
\* of the first such control of the list.
C14_FirstPagedCookie ==
    Paged =>
        /\ last.exc = "LDAPServerError" <=> PagedIndexes = {}
        /\ PagedIndexes # {} =>
               /\ last.exc = None
               /\ \E i \in PagedIndexes :
                      /\ \A j \in PagedIndexes : i <= j
                      /\ last.cookie = last.server_ctrls[i].cookie

\* two paged-results controls with different cookies after another control
C14_Witness ==
    /\ Paged /\ last.exc = None
    /\ Cardinality(PagedIndexes) = 2
    /\ 1 \notin PagedIndexes
    /\ last.server_ctrls[2].cookie # last.server_ctrls[3].cookie
    /\ last.cookie = last.server_ctrls[2].cookie

\* no paged-results control among the controls sent
C14_WitnessUnsupported ==
    /\ Paged /\ last.exc = "LDAPServerError"
    /\ Len(last.server_ctrls) > 0

---------------------------------------------------------------------------
(* providers/ldap/util: the connection cache and ldap_context              *)
(* A unit of work is an application context (one request).  Runner 0 is    *)
(* code that runs with no application context.  A connection is its index  *)
(* in `connections`.                                                       *)

\* number of application contexts
MaxUnits == 2

\* number of LDAP connections initialised
MaxConns == 2

\* depth of nested `with ldap_context(...)` blocks of one runner
MaxNesting == 2

NoContext == 0

Units == 1..MaxUnits

Runners == {NoContext} \cup Units

conn_keys == {"uri", "bind_dn", "bind_password", "tls", "starttls"}

\* hash(v) of a settings value.  hash is not injective: in CPython -1 is
\* the error return of a hash slot, so hash(-1) is -2, as is hash(-2)
Hash(v) == IF v = "-1" THEN <<"hash", "-2">> ELSE <<"hash", v>>

\* the settings ldap_connect reads: uri, bind_dn, bind_password, tls and
\* starttls
ConnectFields(settings) == [k \in DOMAIN settings \cap conn_keys |-> settings[k]]

\* frozenset((k, hash(v)) for k, v in iteritems(settings) if k in conn_keys)
CacheKey(settings) == {<<k, Hash(settings[k])>> : k \in DOMAIN settings \cap conn_keys}

CacheAttr == "_multiauth_ldap_connections"

CurrentG_global(u) == 1

\* flask.g: the g of the application context the unit runs in
CurrentG(u) == u

\* _get_ldap_cache() called by runner r: the cache, the g objects after the
\* call, and whether the cache is the one attached to g
get_ldap_cache(gs, r) ==
    IF r = NoContext THEN [cache |-> EmptyDict, gs |-> gs, attached |-> FALSE]
    ELSE IF CacheAttr \in DOMAIN gs[CurrentG(r)]
         THEN [cache |-> gs[CurrentG(r)][CacheAttr], gs |-> gs, attached |-> TRUE]
         ELSE [cache |-> EmptyDict,
               gs |-> [gs EXCEPT ![CurrentG(r)] = DictSet(@, CacheAttr, EmptyDict)],
               attached |-> TRUE]

\* the ldap errors initialize / start_tls_s / simple_bind_s can raise
ConnectErrors == {"SERVER_DOWN", "INVALID_CREDENTIALS"}

\* the undecorated ldap_connect: a new connection object, bound when
\* simple_bind_s returned
ldap_connect(conns, r, settings, outcome) ==
    IF outcome = "ok"
    THEN [exc |-> None,
          conns |-> Append(conns, [key |-> CacheKey(settings), fields |-> ConnectFields(settings),
                                   by |-> r, status |-> "bound", unbinds |-> 0])]
    ELSE [exc |-> outcome,
          conns |-> Append(conns, [key |-> CacheKey(settings), fields |-> ConnectFields(settings),
                                   by |-> r, status |-> "initialized", unbinds |-> 0])]

\* the wrapper of _cache_ldap_connection around ldap_connect
cached_ldap_connect(gs, conns, r, settings, outcome) ==
    LET c == get_ldap_cache(gs, r)
        key == CacheKey(settings)
    IN  IF key \in DOMAIN c.cache
        THEN [exc |-> None, connection |-> c.cache[key], gs |-> c.gs, conns |-> conns,
              hit |-> TRUE]
        ELSE LET n == ldap_connect(conns, r, settings, outcome)
             IN  IF n.exc # None
                 THEN [exc |-> n.exc, connection |-> 0, gs |-> c.gs, conns |-> n.conns,
                       hit |-> FALSE]
                 ELSE [exc |-> None, connection |-> Len(n.conns),
                       gs |-> IF c.attached
                              THEN [c.gs EXCEPT ![CurrentG(r)] =
                                       DictSet(@, CacheAttr, DictSet(c.cache, key, Len(n.conns)))]
                              ELSE c.gs,
                       conns |-> n.conns, hit |-> FALSE]

ContextError_timeout(e) ==
    CASE e = "SERVER_DOWN" -> "MultiAuthException"
      [] e = "INVALID_CREDENTIALS" -> "ValueError"
      [] e = "SIZELIMIT_EXCEEDED" -> "MultiAuthException"
      [] e = "TIMELIMIT_EXCEEDED" -> "MultiAuthException"
      [] e = "TIMEOUT" -> "ValueError"
      [] e = "FILTER_ERROR" -> "ValueError"
      [] OTHER -> e

\* the except clauses of ldap_context: the exception that leaves the block
\* for an exception raised in it
ContextError(e) ==
    CASE e = "SERVER_DOWN" -> "MultiAuthException"
      [] e = "INVALID_CREDENTIALS" -> "ValueError"
      [] e = "SIZELIMIT_EXCEEDED" -> "MultiAuthException"
      [] e = "TIMELIMIT_EXCEEDED" -> "MultiAuthException"
      [] e = "TIMEOUT" -> "MultiAuthException"
      [] e = "FILTER_ERROR" -> "ValueError"
      [] OTHER -> e

\* the message of the exception the except clauses raise
ContextMessage(e) ==
    CASE e = "SERVER_DOWN" -> "The LDAP server is unreachable"
      [] e = "INVALID_CREDENTIALS" -> "Invalid bind credentials"
      [] e = "SIZELIMIT_EXCEEDED" -> "Size limit exceeded (try setting a smaller page size)"
      [] e = "TIMELIMIT_EXCEEDED" -> "The time limit for the operation has been exceeded."
      [] e = "TIMEOUT" -> "The operation timed out."
      [] e = "FILTER_ERROR" -> "The filter supplied to the operation is invalid."
      [] OTHER -> ""

\* what the body of a `with ldap_context(...)` block can do: finish, raise
\* an ldap error, or raise something else
BodyOutcomes ==
    {"ok", "SERVER_DOWN", "INVALID_CREDENTIALS", "SIZELIMIT_EXCEEDED", "TIMELIMIT_EXCEEDED",
     "TIMEOUT", "FILTER_ERROR", "KeyError"}

\* a runner can execute code: it has no application context, or its
\* context is pushed
Running(r) == IF r = NoContext THEN TRUE ELSE phase[r] = "active"

\* app.app_context().push()
PushAppContext(u) ==
    /\ phase[u] = "idle"
    /\ phase' = [phase EXCEPT ![u] = "active"]
    /\ last' = [op |-> "push", runner |-> u, exc |-> None]
    /\ UNCHANGED <<config, extensions, user_callback, args, webvars, g, connections,
                   ldap_ctx_stack>>

\* entering `with ldap_context(settings)`: ldap_connect, then the push
EnterLdapContext(r, settings, outcome) ==
    /\ Running(r)
    /\ Len(ldap_ctx_stack[r]) < MaxNesting
    /\ \E c \in {cached_ldap_connect(g, connections, r, settings, outcome)} :
           /\ c.hit => outcome = "ok"
           /\ ~c.hit => Len(connections) < MaxConns
           /\ g' = c.gs
           /\ connections' = c.conns
           /\ ldap_ctx_stack' =
                  IF c.exc = None
                  THEN [ldap_ctx_stack EXCEPT ![r] =
                           Append(@, [connection |-> c.connection, settings |-> settings])]
                  ELSE ldap_ctx_stack
           /\ last' = [op |-> "ldap_context_enter", runner |-> r, raised |-> c.exc,
                       exc |-> ContextError(c.exc), message |-> ContextMessage(c.exc),
                       connection |-> c.connection]
    /\ UNCHANGED <<config, extensions, user_callback, args, webvars, phase>>

\* leaving the innermost block of runner r, its body having ended with
\* outcome: the finally clause pops the context, the except clauses map
\* the exception
ExitLdapContext(r, outcome) ==
    /\ Running(r)
    /\ ldap_ctx_stack[r] # << >>
    /\ ldap_ctx_stack' = [ldap_ctx_stack EXCEPT ![r] = SubSeq(@, 1, Len(@) - 1)]
    /\ last' = [op |-> "ldap_context_exit", runner |-> r,
                raised |-> IF outcome = "ok" THEN None ELSE outcome,
                exc |-> ContextError(IF outcome = "ok" THEN None ELSE outcome),
                message |-> ContextMessage(outcome),
                connection |-> ldap_ctx_stack[r][Len(ldap_ctx_stack[r])].connection]
    /\ UNCHANGED <<config, extensions, user_callback, args, webvars, phase, g, connections>>

\* the connections _clear_ldap_cache iterates over
CachedConnections(gs, u) ==
    IF CacheAttr \in DOMAIN gs[CurrentG(u)] THEN Range(gs[CurrentG(u)][CacheAttr]) ELSE {}

\* unbind_s is called on connection c, and raises ldap.LDAPError when
\* failed
Unbind(conn, failed) ==
    [conn EXCEPT !.status = IF failed THEN "unbind_failed" ELSE "unbound",
                 !.unbinds = @ + 1]

clear_ldap_cache_aborts(conns, cached, failing) ==
    IF failing = {}
    THEN [exc |-> None,
          conns |-> [c \in DOMAIN conns |-> IF c \in cached THEN Unbind(conns[c], FALSE) ELSE conns[c]]]
    ELSE [exc |-> "LDAPError",
          conns |-> [c \in DOMAIN conns |-> IF c \in failing THEN Unbind(conns[c], TRUE) ELSE conns[c]]]

\* _clear_ldap_cache: unbind_s on every cached connection; those of
\* `failing` raise ldap.LDAPError, which is ignored
clear_ldap_cache(conns, cached, failing) ==
    [exc |-> None,
     conns |-> [c \in DOMAIN conns |->
                   IF c \in cached THEN Unbind(conns[c], c \in failing) ELSE conns[c]]]

\* the application context of unit u is popped: appcontext_tearing_down
\* fires _clear_ldap_cache
PopAppContext(u, failing) ==
    /\ phase[u] = "active"
    /\ ldap_ctx_stack[u] = << >>
    /\ failing \subseteq CachedConnections(g, u)
    /\ \E t \in {clear_ldap_cache(connections, CachedConnections(g, u), failing)} :
           /\ connections' = t.conns
           /\ last' = [op |-> "pop", runner |-> u, exc |-> t.exc]
    /\ phase' = [phase EXCEPT ![u] = "done"]
    /\ UNCHANGED <<config, extensions, user_callback, args, webvars, g, ldap_ctx_stack>>

\* provider settings, each value the repr of a Python value: two servers;
\* the second differs from the first in a setting that is not part of the
\* cache key, the fourth differs from the first in tls (-2 for -1, both of
\* them true values)
LdapSettings ==
    {[uri |-> "ldap://a", bind_dn |-> "cn=x", bind_password |-> "pw", tls |-> "-1",
      starttls |-> "True", timeout |-> "10"],
     [uri |-> "ldap://a", bind_dn |-> "cn=x", bind_password |-> "pw", tls |-> "-1",
      starttls |-> "True", timeout |-> "30"],
     [uri |-> "ldaps://b", bind_dn |-> "cn=x", bind_password |-> "pw", tls |-> "True",
      starttls |-> "False", timeout |-> "10"],
     [uri |-> "ldap://a", bind_dn |-> "cn=x", bind_password |-> "pw", tls |-> "-2",
      starttls |-> "True", timeout |-> "10"]}

InitLdap ==
    /\ config = EmptyDict
    /\ extensions = EmptyDict
    /\ user_callback = None
    /\ last = Start
    /\ NoArgs /\ NoRequest
    /\ phase = [u \in Units |-> "idle"]
    /\ g = [u \in Units |-> EmptyDict]
    /\ connections = << >>
    /\ ldap_ctx_stack = [r \in Runners |-> << >>]

NextLdap ==
    \/ \E u \in Units : PushAppContext(u)
    \/ \E r \in Runners, settings \in LdapSettings, outcome \in {"ok"} \cup ConnectErrors :
           EnterLdapContext(r, settings, outcome)
    \/ \E r \in Runners, outcome \in BodyOutcomes : ExitLdapContext(r, outcome)
    \/ \E u \in Units : \E failing \in SUBSET CachedConnections(g, u) : PopAppContext(u, failing)

SpecLdap == InitLdap /\ [][NextLdap]_vars

---------------------------------------------------------------------------
(* Properties of the connection cache, checked under SpecLdap              *)

\* the connections runner r established: it bound them
BoundBy(r) == {c \in DOMAIN connections : connections[c].by = r /\ connections[c].status # "initialized"}

\* unbind_s was called on the connection
Released(c) == connections[c].status \in {"unbound", "unbind_failed"}

\* the unit of work of runner r is over: its application context was
\* popped; for code without an application context, it left every
\* ldap_context block
UnitOver(r) == IF r = NoContext THEN ldap_ctx_stack[r] = << >> ELSE phase[r] = "done"

\* C15: every connection bound during a unit of work is unbound by the end
\* of the unit, on every exit path, an exception in the ldap_context body
\* and use outside an application context included.
C15_AllReleased == \A r \in Runners : UnitOver(r) => \A c \in BoundBy(r) : Released(c)

\* the part of C15 the code keeps: units of work that are application
\* contexts
C15_ContextsReleased == \A u \in Units : UnitOver(u) => \A c \in BoundBy(u) : Released(c)

\* the connections unit u holds in its cache
Held(u) == CachedConnections(g, u)

\* C16: two application contexts never hold the same connection, also when
\* they connect with identical settings, and while a context is active no
\* connection it holds has been unbound (by another context's teardown).
C16_IndependentCaches ==
    /\ \A u, v \in Units : u # v => Held(u) \cap Held(v) = {}
    /\ \A u \in Units : Held(u) \subseteq BoundBy(u)
    /\ \A u \in Units : phase[u] = "active" => \A c \in Held(u) : connections[c].status = "bound"

\* both contexts are active and connected with the same settings; then one
\* is torn down while the other still holds its connection
C16_Witness ==
    /\ phase[1] = "done" /\ phase[2] = "active"
    /\ \E c \in BoundBy(1), d \in Held(2) :
           /\ connections[c].key = connections[d].key
           /\ c < d
           /\ Released(c)
           /\ connections[d].status = "bound"

\* the directory transport failures ldap_context translates
TransportFailures ==
    {"SERVER_DOWN", "INVALID_CREDENTIALS", "SIZELIMIT_EXCEEDED", "TIMELIMIT_EXCEEDED", "TIMEOUT",
     "FILTER_ERROR"}

RetryLater == {"SERVER_DOWN", "TIMEOUT"}

FixConfiguration == {"INVALID_CREDENTIALS", "FILTER_ERROR"}

\* an ldap_context block was entered or left with a transport failure
Translated == last.op \in {"ldap_context_enter", "ldap_context_exit"} /\ last.raised \in TransportFailures

\* C25 as stated: every transport failure leaves ldap_context as an error
\* of a kind no other transport failure is mapped to, and the kind of a
\* retry-later failure is never the kind of a fix-configuration failure.
C25_DistinctKinds ==
    Translated =>
        /\ \A e \in TransportFailures \ {last.raised} : ContextError(e) # last.exc
        /\ last.raised \in RetryLater => \A e \in FixConfiguration : ContextError(e) # last.exc

\* C25: ldap_context maps the six transport failures onto two error kinds,
\* ValueError for invalid credentials and a malformed filter and
\* MultiAuthException for the other four, each with a message of its own;
\* so the kind alone tells a retry-later failure from a fix-configuration
\* failure, but does not tell the failures of one kind apart.
C25_TwoKinds ==
    Translated =>
        /\ last.exc = IF last.raised \in FixConfiguration THEN "ValueError" ELSE "MultiAuthException"
        /\ \A e \in TransportFailures \ {last.raised} : ContextMessage(e) # last.message
        /\ last.raised \in RetryLater => \A e \in FixConfiguration : ContextError(e) # last.exc
        /\ last.raised \in FixConfiguration => \A e \in RetryLater : ContextError(e) # last.exc

\* a search in the block timed out
C25_Witness ==
    /\ last.op = "ldap_context_exit"
    /\ last.raised = "TIMEOUT"
    /\ last.exc = "MultiAuthException"

\* the bind on entering the block was refused
C25_WitnessCredentials ==
    /\ last.op = "ldap_context_enter"
    /\ last.raised = "INVALID_CREDENTIALS"
    /\ last.exc = "ValueError"

\* C26: within one application context ldap_connect sets up and binds at
\* most one connection for each value of (uri, bind_dn, bind_password, tls,
\* starttls), and the connection it returns for some settings is the one
\* that was set up with these five values: the same one for settings that
\* agree on the five, another one for settings that differ in any of them.
C26_KeyedByFields ==
    \A u \in Units :
        /\ \A c, d \in BoundBy(u) :
               c # d => connections[c].fields # connections[d].fields
        /\ \A i \in DOMAIN ldap_ctx_stack[u] :
               connections[ldap_ctx_stack[u][i].connection].fields =
                   ConnectFields(ldap_ctx_stack[u][i].settings)

\* what the code keeps of C26: the same with the hashes of the five values
\* in place of the values
C26_KeyedByHashes ==
    \A u \in Units :
        /\ \A c, d \in BoundBy(u) : c # d => connections[c].key # connections[d].key
        /\ \A i \in DOMAIN ldap_ctx_stack[u] :
               connections[ldap_ctx_stack[u][i].connection].key =
                   CacheKey(ldap_ctx_stack[u][i].settings)

\* C27: when an application context is torn down, unbind_s is called
\* exactly once on every connection of its cache and on no other
\* connection, whichever of the calls raise ldap.LDAPError, and the
\* teardown raises nothing.
C27_TeardownUnbindsAll ==
    [][\A u \in Units :
           phase[u] = "active" /\ phase'[u] = "done" =>
               /\ \A c \in Held(u) :
                      /\ connections[c].unbinds = 0
                      /\ connections'[c].unbinds = 1
                      /\ connections'[c].status \in {"unbound", "unbind_failed"}
               /\ \A c \in DOMAIN connections \ Held(u) : connections'[c] = connections[c]
               /\ last'.exc = None]_vars

\* a context with two cached connections was torn down: unbinding one of
\* them failed, the other one was unbound
C27_Witness ==
    /\ last.op = "pop"
    /\ last.exc = None
    /\ \E c, d \in Held(last.runner) :
           /\ connections[c].status = "unbind_failed"
           /\ connections[d].status = "unbound"

---------------------------------------------------------------------------
(* The login views: _set_next_url, _get_next_url, _login_selector,         *)
(* _login_form, process_login, handle_auth_error                           *)

\* number of messages flashed
MaxFlashes == 2

K_NEXT == "multiauth_next_url"

K_FAILED == "multiauth_auth_failed"

\* request.args.get('next'): None when the request has no such argument
NoNext == [kind |-> "None"]

Path(p) == [path |-> p]

NextArgs == {NoNext, Path(""), Path("/private")}

\* `not next_url`
NoUrl(next_url) == next_url = NoNext \/ next_url = Path("")

\* flask.url_for(endpoint, **values) and flask.redirect(location)
url_for(endpoint, values) == [endpoint |-> endpoint, values |-> values]

redirect(location) == [kind |-> "redirect", location |-> location]

\* a view function returning None
NoResponse == [kind |-> "None"]

SuccessUrl(cfg) == url_for(cfg["MULTIAUTH_SUCCESS_ENDPOINT"], EmptyDict)

\* _set_next_url: the session it leaves
set_next_url(cfg, sess, next) ==
    DictSet(sess, K_NEXT, IF NoUrl(next) THEN SuccessUrl(cfg) ELSE next)

PopNextUrl_keep(sess) ==
    IF K_NEXT \in DOMAIN sess
    THEN [found |-> TRUE, value |-> sess[K_NEXT], session |-> sess]
    ELSE [found |-> FALSE, value |-> NoNext, session |-> sess]

\* session.pop('multiauth_next_url'); found = FALSE is the KeyError
PopNextUrl(sess) ==
    IF K_NEXT \in DOMAIN sess
    THEN [found |-> TRUE, value |-> sess[K_NEXT], session |-> DictWithout(sess, K_NEXT)]
    ELSE [found |-> FALSE, value |-> NoNext, session |-> sess]

\* _get_next_url: the URL returned and the session it leaves
get_next_url(cfg, sess) ==
    LET p == PopNextUrl(sess)
    IN  [url |-> IF p.found THEN p.value ELSE SuccessUrl(cfg), session |-> p.session]

\* text_type(exc) of the exceptions of the model
ExcText(exc) == IF exc = "UserRetrievalFailed" THEN "No user found" ELSE ""

\* MULTIAUTH_FAILURE_MESSAGE.format(error=...)
FormatMessage(template, error) == [template |-> template, error |-> error]

ErrorResponse_always(cfg, redirect_to_login) ==
    redirect(url_for(cfg["MULTIAUTH_LOGIN_ENDPOINT"], EmptyDict))

\* the last two lines of handle_auth_error
ErrorResponse(cfg, redirect_to_login) ==
    IF redirect_to_login THEN redirect(url_for(cfg["MULTIAUTH_LOGIN_ENDPOINT"], EmptyDict))
    ELSE NoResponse

\* handle_auth_error(exc, redirect_to_login)
handle_auth_error(cfg, sess, fl, exc, redirect_to_login) ==
    [session |-> DictSet(sess, K_FAILED, TRUE),
     flashes |-> Append(fl, [message |-> FormatMessage(cfg["MULTIAUTH_FAILURE_MESSAGE"], ExcText(exc)),
                             category |-> cfg["MULTIAUTH_FAILURE_CATEGORY"]]),
     response |-> ErrorResponse(cfg, redirect_to_login)]

\* 'MULTIAUTH_{}_TEMPLATE'.format(template_key)
TemplateOption(template_key) ==
    IF template_key = "LOGIN_SELECTOR" THEN "MULTIAUTH_LOGIN_SELECTOR_TEMPLATE"
    ELSE "MULTIAUTH_LOGIN_FORM_TEMPLATE"

\* MultiAuth.render_template(template_key, **kwargs)
render_template(cfg, template_key, kwargs) ==
    IF cfg[TemplateOption(template_key)] = None
    THEN [exc |-> "RuntimeError", response |-> NoResponse]
    ELSE [exc |-> None,
          response |-> [kind |-> "render", template |-> cfg[TemplateOption(template_key)],
                        kwargs |-> kwargs]]

PopAuthFailed_keep(sess) ==
    [value |-> IF K_FAILED \in DOMAIN sess THEN sess[K_FAILED] ELSE FALSE, session |-> sess]

\* session.pop('multiauth_auth_failed', False)
PopAuthFailed(sess) ==
    [value |-> IF K_FAILED \in DOMAIN sess THEN sess[K_FAILED] ELSE FALSE,
     session |-> DictWithout(sess, K_FAILED)]

\* _login_selector()
login_selector(state, cfg, sess, next) ==
    LET providers == state.auth_providers
        popped == PopAuthFailed(sess)
    IN  IF ~popped.value /\ Cardinality(DOMAIN providers) = 1
        THEN LET provider == providers[CHOOSE n \in DOMAIN providers : TRUE]
             IN  [exc |-> None, rendered |-> None, session |-> popped.session,
                  response |-> redirect(url_for(cfg["MULTIAUTH_LOGIN_ENDPOINT"],
                                                [provider |-> provider.name, next |-> next]))]
        ELSE [rendered |-> "LOGIN_SELECTOR", session |-> popped.session]
             @@ render_template(cfg, "LOGIN_SELECTOR",
                                [providers |-> DOMAIN providers, next |-> next,
                                 auth_failed |-> popped.value])

\* AuthProvider.is_external of the providers of the model
is_external(provider) == provider.cls = "UniqueProvider"

\* the exception classes derived from MultiAuthException
IsMultiAuthException(exc) ==
    exc \in {"MultiAuthException", "AuthenticationFailed", "UserRetrievalFailed",
             "GroupRetrievalFailed"}

\* what provider.process_local_login(form.data) can do
LoginOutcomes == {"ok", "AuthenticationFailed", "ValueError"}

AfterAttempt_redirects(caught) == "redirect_success"

\* the try statement of _login_form once the except clause (if entered) is
\* done: the else clause returns the success redirect, otherwise the form
\* is rendered
AfterAttempt(caught) == IF caught THEN "render" ELSE "redirect_success"

SavesNextUrl_always(submitted) == TRUE

\* `if not form.is_submitted():` guarding self._set_next_url()
SavesNextUrl(submitted) == ~submitted

\* _login_form(provider): form.is_submitted() = submitted,
\* form.validate() = valid, the provider's login ends with login, and auth
\* is what handle_auth_info(auth_info) does (it counts only when the login
\* returned)
login_form(cfg, sess, fl, provider, next, submitted, valid, login, auth) ==
    LET s1 == IF SavesNextUrl(submitted) THEN set_next_url(cfg, sess, next) ELSE sess
        raised == IF login # "ok" THEN login ELSE auth.exc
        attempt == submitted /\ valid
        caught == attempt /\ IsMultiAuthException(raised)
        handled == handle_auth_error(cfg, s1, fl, raised, FALSE)
        s2 == IF caught THEN handled.session ELSE s1
        f2 == IF caught THEN handled.flashes ELSE fl
        base == [submitted |-> submitted, next |-> next,
                 attempt |-> attempt, login |-> IF attempt THEN login ELSE None,
                 auth_exc |-> IF attempt /\ login = "ok" THEN auth.exc ELSE None,
                 calls |-> IF attempt /\ login = "ok" THEN auth.calls ELSE << >>,
                 caught |-> IF caught THEN raised ELSE None]
    IN  IF attempt /\ raised # None /\ ~caught
        THEN base @@ [exc |-> raised, response |-> NoResponse, rendered |-> None,
                      session |-> s1, flashes |-> fl]
        ELSE IF attempt /\ AfterAttempt(caught) = "redirect_success"
        THEN LET n == get_next_url(cfg, s2)
             IN  base @@ [exc |-> None, response |-> redirect(n.url), rendered |-> None,
                          session |-> n.session, flashes |-> f2]
        ELSE base @@ [rendered |-> "LOGIN_FORM", session |-> s2, flashes |-> f2]
             @@ render_template(cfg, "LOGIN_FORM", [provider |-> provider.name])

\* _login_external(provider)
login_external(cfg, sess, fl, provider, next) ==
    [exc |-> None, response |-> [kind |-> "external", provider |-> provider.name],
     rendered |-> None, session |-> set_next_url(cfg, sess, next), flashes |-> fl,
     submitted |-> FALSE, next |-> next,
     attempt |-> FALSE, login |-> None, auth_exc |-> None, calls |-> << >>, caught |-> None]

\* a request is served by the application the extension was initialised on
Serving == HasState(extensions)

RequestState == extensions["multiauth"]

\* multiauth._set_next_url() in a request with argument next
SetNextUrl(next) ==
    /\ Serving
    /\ session' = set_next_url(config, session, next)
    /\ last' = [op |-> "_set_next_url", exc |-> None, next |-> next, response |-> NoResponse]
    /\ UNCHANGED <<config, extensions, user_callback, args, flashes, ldapvars>>

\* multiauth._get_next_url() in a request with argument next
GetNextUrl(next) ==
    /\ Serving
    /\ \E r \in {get_next_url(config, session)} :
           /\ session' = r.session
           /\ last' = [op |-> "_get_next_url", exc |-> None, next |-> next,
                       response |-> [kind |-> "url", location |-> r.url]]
    /\ UNCHANGED <<config, extensions, user_callback, args, flashes, ldapvars>>

\* process_login() with no provider
LoginSelector(next) ==
    /\ Serving
    /\ \E r \in {login_selector(RequestState, config, session, next)} :
           /\ session' = r.session
           /\ last' = [op |-> "_login_selector", exc |-> r.exc, next |-> next,
                       response |-> r.response, rendered |-> r.rendered,
                       providers |-> DOMAIN RequestState.auth_providers,
                       auth_failed |-> K_FAILED \in DOMAIN session]
    /\ UNCHANGED <<config, extensions, user_callback, args, flashes, ldapvars>>

\* the requests _login_form tells apart: a GET (the form is not submitted),
\* a POST that fails validation, a POST that validates and whose login
\* ends with `login`
FormRequests ==
    {[submitted |-> FALSE, valid |-> FALSE, login |-> "ok"],
     [submitted |-> TRUE, valid |-> FALSE, login |-> "ok"]}
    \cup {[submitted |-> TRUE, valid |-> TRUE, login |-> l] : l \in LoginOutcomes}

\* the choices of `found` that matter to the request
FoundFor(name, form) ==
    IF form.submitted /\ form.valid /\ form.login = "ok"
    THEN SUBSET LinkIndexes(extensions, name) ELSE {{}}

\* the `next` arguments of the request
NextFor(form) == NextArgs

\* process_login(provider=name)
ProcessLogin(name, next, form, found) ==
    /\ Serving
    /\ IF name \notin DOMAIN RequestState.auth_providers THEN
           /\ last' = [op |-> "process_login", provider |-> name, exc |-> "NotFound",
                       response |-> NoResponse, view |-> None]
           /\ UNCHANGED <<session, flashes, extensions>>
       ELSE IF is_external(RequestState.auth_providers[name]) THEN
           \E r \in {login_external(config, session, flashes, RequestState.auth_providers[name], next)} :
               /\ session' = r.session
               /\ flashes' = r.flashes
               /\ last' = [op |-> "process_login", provider |-> name, view |-> "_login_external"]
                          @@ [k \in DOMAIN r \ {"session", "flashes"} |-> r[k]]
               /\ UNCHANGED extensions
       ELSE
           \E auth \in {handle_auth_info(extensions, config, user_callback, name, found)} :
           \E r \in {login_form(config, session, flashes, RequestState.auth_providers[name],
                                next, form.submitted, form.valid, form.login, auth)} :
               /\ Len(r.flashes) <= MaxFlashes
               /\ session' = r.session
               /\ flashes' = r.flashes
               /\ last' = [op |-> "process_login", provider |-> name, view |-> "_login_form",
                           flashed |-> Len(r.flashes) - Len(flashes)]
                          @@ [k \in DOMAIN r \ {"session", "flashes"} |-> r[k]]
               /\ extensions' = IF r.attempt /\ r.login = "ok"
                                 THEN AfterResolution(extensions, name, auth.queried)
                                 ELSE extensions
    /\ UNCHANGED <<config, user_callback, args, ldapvars>>

\* multiauth.handle_auth_error(exc, redirect_to_login)
HandleAuthError(exc, redirect_to_login) ==
    /\ Serving
    /\ Len(flashes) < MaxFlashes
    /\ \E r \in {handle_auth_error(config, session, flashes, exc, redirect_to_login)} :
           /\ session' = r.session
           /\ flashes' = r.flashes
           /\ last' = [op |-> "handle_auth_error", exc |-> None, error |-> exc,
                       redirect_to_login |-> redirect_to_login, response |-> r.response]
    /\ UNCHANGED <<config, extensions, user_callback, args, ldapvars>>

\* the applications of the login views: none, one or two auth providers
\* (a is a form provider, b an external one), links that resolve, fail or
\* are missing, templates configured or not
LoginAuthConfigs ==
    {EmptyDict, [n \in {"a"} |-> Settings("foo")],
     [n \in {"a", "b"} |-> IF n = "a" THEN Settings("foo") ELSE Settings("unique")]}

LoginMaps ==
    {[n \in {"a"} |-> v] : v \in {List(<< >>), Dict([user_provider |-> "x"]), Str("x")}}

LoginOptions ==
    {[MULTIAUTH_LOGIN_SELECTOR_TEMPLATE |-> t[1], MULTIAUTH_LOGIN_FORM_TEMPLATE |-> t[2],
      MULTIAUTH_REQUIRE_USER |-> r] :
        t \in {<<None, None>>, <<"selector.html", "form.html">>}, r \in BOOLEAN}

LoginConfigs ==
    {(K_AUTH :> c[1]) @@ (K_USER :> [n \in {"x"} |-> Settings("dir")]) @@ (K_MAP :> c[2]) @@ c[3] :
        c \in LoginAuthConfigs \X LoginMaps \X LoginOptions}

InitLogin ==
    /\ config \in LoginConfigs
    /\ extensions = EmptyDict
    /\ user_callback = None
    /\ last = Start
    /\ NoArgs /\ NoLdap
    /\ session = EmptyDict
    /\ flashes = << >>

NextLogin ==
    \/ InitApp
    \/ \E callback \in Callbacks : UserHandler(callback)
    \/ \E next \in NextArgs : SetNextUrl(next)
    \/ \E next \in NextArgs : GetNextUrl(next)
    \/ \E next \in NextArgs : LoginSelector(next)
    \/ \E name \in AuthNames, form \in FormRequests :
       \E next \in NextFor(form), found \in FoundFor(name, form) :
           ProcessLogin(name, next, form, found)
    \/ \E exc \in {"AuthenticationFailed", "UserRetrievalFailed"}, redirect_to_login \in BOOLEAN :
           HandleAuthError(exc, redirect_to_login)

SpecLogin == InitLogin /\ [][NextLogin]_vars

---------------------------------------------------------------------------
(* Properties of the login views, checked under SpecLogin                  *)

\* the URL the session holds for the redirect after login, if any
Pending(sess) == K_NEXT \in DOMAIN sess

\* C17: the pending next-URL is read and cleared.  _set_next_url saves the
\* request's 'next' argument, or the success endpoint's URL when there is
\* none; _get_next_url returns what is saved and removes it, and returns
\* the success endpoint's URL when nothing is saved, whatever the request's
\* 'next' argument; the calls that are neither (nor a login view making
\* them) leave the saved URL alone.
C17_ReadAndClear ==
    [][ /\ last'.op = "_set_next_url" =>
               /\ Pending(session')
               /\ session'[K_NEXT] = IF last'.next \in {NoNext, Path("")}
                                     THEN url_for(config["MULTIAUTH_SUCCESS_ENDPOINT"], << >>)
                                     ELSE last'.next
        /\ last'.op = "_get_next_url" =>
               /\ last'.response.location =
                      IF Pending(session) THEN session[K_NEXT]
                      ELSE url_for(config["MULTIAUTH_SUCCESS_ENDPOINT"], << >>)
               /\ ~Pending(session')
        /\ last'.op \notin {"_set_next_url", "_get_next_url", "process_login"} =>
               /\ Pending(session') <=> Pending(session)
               /\ Pending(session) => session'[K_NEXT] = session[K_NEXT]
      ]_vars

\* a _get_next_url that returned the URL a _set_next_url saved from the
\* request, and removed it
C17_Witness ==
    /\ last.op = "_get_next_url"
    /\ last.response.location = Path("/private")
    /\ ~Pending(session)

\* a _get_next_url in a request with a 'next' argument, nothing being saved
C17_WitnessUnsaved ==
    /\ last.op = "_get_next_url"
    /\ last.next = Path("/private")
    /\ last.response.location = url_for("index", << >>)
    /\ flashes = << >>

Selected == last.op = "_login_selector"

\* C18: the login selector redirects to the provider's login URL exactly
\* when one auth provider is configured and the failed-attempt flag is not
\* set; otherwise it renders the selector (render_template('LOGIN_SELECTOR'),
\* which gives the page when the template is configured).  Reading the flag
\* clears it.
C18_SelectorRedirect ==
    Selected =>
        LET redirected == last.response.kind = "redirect"
        IN  /\ redirected <=> (Cardinality(last.providers) = 1 /\ ~last.auth_failed)
            /\ redirected =>
                   /\ last.exc = None
                   /\ \E n \in last.providers :
                          last.response.location =
                              url_for(config["MULTIAUTH_LOGIN_ENDPOINT"],
                                      [provider |-> n, next |-> last.next])
            /\ ~redirected =>
                   /\ last.rendered = "LOGIN_SELECTOR"
                   /\ last.exc = None <=> config["MULTIAUTH_LOGIN_SELECTOR_TEMPLATE"] # None
                   /\ last.exc = None =>
                          /\ last.response.kind = "render"
                          /\ last.response.kwargs.auth_failed = last.auth_failed
            /\ K_FAILED \notin DOMAIN session

\* an automatic redirect after a failure was flashed: a selector visit in
\* between read the flag and cleared it
C18_Witness ==
    /\ Selected
    /\ last.response.kind = "redirect"
    /\ flashes # << >>

\* a selector visit that found the flag set, with one provider configured
C18_WitnessFlagged ==
    /\ Selected
    /\ last.auth_failed /\ Cardinality(last.providers) = 1
    /\ last.response.kind = "render"

FormPosted == last.op = "process_login" /\ last.view = "_login_form"

\* the provider's login or handle_auth_info raised a MultiAuthException
AttemptFailed ==
    /\ last.attempt
    /\ \/ IsMultiAuthException(last.login)
       \/ last.login = "ok" /\ IsMultiAuthException(last.auth_exc)

\* C19: a MultiAuthException raised while processing a submitted login
\* form does not leave process_login: it is caught, the failed-attempt flag
\* is set, one message is flashed, the login form is rendered again
\* (render_template('LOGIN_FORM')) and no success redirect is returned; a
\* success redirect is returned only when the provider's login and
\* handle_auth_info both returned.
C19_FailureHandled ==
    FormPosted =>
        /\ ~IsMultiAuthException(last.exc)
        /\ AttemptFailed =>
               /\ last.caught # None
               /\ K_FAILED \in DOMAIN session /\ session[K_FAILED]
               /\ last.flashed = 1
               /\ last.response.kind # "redirect"
               /\ last.rendered = "LOGIN_FORM"
               /\ last.exc = None <=> config["MULTIAUTH_LOGIN_FORM_TEMPLATE"] # None
               /\ last.exc = None => last.response.kind = "render"
        /\ last.response.kind = "redirect" =>
               /\ last.attempt /\ last.login = "ok" /\ last.auth_exc = None
               /\ last.flashed = 0

\* handle_auth_info found no user although one is required, and the form
\* was rendered again
C19_Witness ==
    /\ FormPosted /\ AttemptFailed
    /\ last.caught = "UserRetrievalFailed"
    /\ last.response.kind = "render"

\* a login that went through to the success redirect
C19_WitnessSuccess ==
    /\ FormPosted
    /\ last.response.kind = "redirect"
    /\ last.calls # << >>

\* C20: handle_auth_error sets the session's failed-attempt flag to true
\* and flashes exactly one message; it returns a redirect to the login
\* endpoint exactly when redirect_to_login is true, and None otherwise.
C20_ErrorHandled ==
    [][ last'.op = "handle_auth_error" =>
            /\ K_FAILED \in DOMAIN session' /\ session'[K_FAILED]
            /\ Len(flashes') = Len(flashes) + 1
            /\ SubSeq(flashes', 1, Len(flashes)) = flashes
            /\ flashes'[Len(flashes')].category = config["MULTIAUTH_FAILURE_CATEGORY"]
            /\ IF last'.redirect_to_login
               THEN last'.response =
                        [kind |-> "redirect",
                         location |-> url_for(config["MULTIAUTH_LOGIN_ENDPOINT"], << >>)]
               ELSE last'.response = [kind |-> "None"]
      ]_vars

\* a second failure handled, with the redirect asked for
C20_Witness ==
    /\ last.op = "handle_auth_error"
    /\ last.redirect_to_login
    /\ last.response.kind = "redirect"
    /\ Len(flashes) = 2
    /\ session[K_FAILED]

\* the step is a request served by _login_form
FormStep == last'.op = "process_login" /\ last'.view = "_login_form"

\* the request was a submission that logged in: the success redirect
FormSucceeded == last'.attempt /\ last'.exc = None /\ last'.response.kind = "redirect"

\* the pending next-URL is the same before and after the step
NextUrlKept ==
    /\ Pending(session') <=> Pending(session)
    /\ Pending(session) => session'[K_NEXT] = session[K_NEXT]

\* C29: in the local-form login flow a request that does not submit the
\* form saves the pending next-URL (its 'next' argument, or the success
\* URL); a submission that does not log in, whatever 'next' argument it
\* carries, leaves the saved URL as it is; a submission that logs in
\* redirects to the saved URL (to the success URL when none is saved) and
\* removes it.  So the first successful submission after any number of
\* failed ones redirects to the URL saved when the form was displayed.
C29_NextUrlThroughForm ==
    [][ FormStep =>
            /\ ~last'.submitted =>
                   /\ Pending(session')
                   /\ session'[K_NEXT] =
                          IF NoUrl(last'.next) THEN SuccessUrl(config) ELSE last'.next
            /\ last'.submitted /\ ~FormSucceeded => NextUrlKept
            /\ FormSucceeded =>
                   /\ last'.submitted
                   /\ ~Pending(session')
                   /\ last'.response.location =
                          IF Pending(session) THEN session[K_NEXT] ELSE SuccessUrl(config)
      ]_vars

\* after a failed submission (its message is flashed and the session is
\* flagged), a submission carrying another 'next' argument logged in and
\* was redirected to the URL saved on display
C29_Witness ==
    /\ last.op = "process_login" /\ last.view = "_login_form"
    /\ last.attempt /\ last.exc = None
    /\ last.next = Path("")
    /\ last.response = redirect(Path("/private"))
    /\ flashes # << >>
    /\ K_FAILED \in DOMAIN session
    /\ ~Pending(session)

\* a failed submission left the saved URL in the session
C29_WitnessFailed ==
    /\ last.op = "process_login" /\ last.view = "_login_form"
    /\ last.attempt /\ last.caught # None
    /\ Pending(session) /\ session[K_NEXT] = Path("/private")

---------------------------------------------------------------------------
(* Properties of init_app, checked under Spec                              *)

\* the configuration of the applications of the tests: no providers, no
\* provider map
TestConfig == config[K_AUTH] = EmptyDict /\ config[K_USER] = EmptyDict /\ config[K_MAP] = EmptyDict

\* C22: init_app on an application that already holds multiauth state
\* fails with RuntimeError and leaves that state unchanged; init_app on an
\* application that holds none (each of several applications the instance
\* is initialised on; the applications of the tests configure nothing)
\* succeeds and leaves state referring to the instance.
C22_InitOncePerApp ==
    [][ last'.op = "init_app" =>
            IF HasState(extensions)
            THEN last'.exc = "RuntimeError" /\ extensions' = extensions
            ELSE TestConfig =>
                     /\ last'.exc = None
                     /\ HasState(extensions')
                     /\ extensions'["multiauth"].multiauth = "multiauth"
      ]_vars

\* what the code keeps of C22: the second call is refused and changes
\* nothing
C22_SecondInitRefused ==
    [][ last'.op = "init_app" /\ HasState(extensions) =>
            last'.exc = "RuntimeError" /\ extensions' = extensions
      ]_vars

\* C30: init_app stores the extension state on the application before it
\* creates providers and validates the map.  However the call ends, the
\* application holds state afterwards, and after a failure it holds the
\* providers stored before the failure: none when creating the auth
\* providers failed, the auth providers only when creating the user
\* providers failed, both and the map when validation failed.  The state
\* is never removed, and every later init_app on the application fails
\* with 'already initialized' and changes nothing.
C30_StateStoredFirst ==
    [][ /\ HasState(extensions) => HasState(extensions')
        /\ last'.op = "init_app" =>
               IF HasState(extensions)
               THEN /\ last'.exc = "RuntimeError"
                    /\ last'.error = "already_initialized"
                    /\ UNCHANGED <<extensions, config>>
               ELSE /\ HasState(extensions')
                    /\ last'.error # "already_initialized"
                    /\ \E st \in {extensions'["multiauth"]} :
                           /\ st.multiauth = "multiauth"
                           /\ last'.step = "auth_providers" =>
                                  /\ st.auth_providers = EmptyDict
                                  /\ st.user_providers = EmptyDict
                                  /\ st.provider_map = EmptyDict
                           /\ last'.step = "user_providers" =>
                                  /\ DOMAIN st.auth_providers = DOMAIN config'[K_AUTH]
                                  /\ st.user_providers = EmptyDict
                                  /\ st.provider_map = EmptyDict
                           /\ last'.step = "validate" =>
                                  /\ DOMAIN st.auth_providers = DOMAIN config'[K_AUTH]
                                  /\ DOMAIN st.user_providers = DOMAIN config'[K_USER]
                                  /\ st.provider_map = get_canonical_provider_map(config'[K_MAP])
      ]_vars

\* creating the auth providers failed (providers are configured, none is
\* stored), and a later init_app on the application was refused
C30_Witness ==
    /\ last.op = "init_app" /\ last.step = "check"
    /\ last.error = "already_initialized"
    /\ config[K_AUTH] # EmptyDict
    /\ extensions["multiauth"].auth_providers = EmptyDict

\* validation failed (providers and map are stored), and a later init_app
\* on the application was refused
C30_WitnessValidation ==
    /\ last.op = "init_app" /\ last.step = "check"
    /\ extensions["multiauth"].auth_providers # EmptyDict
    /\ extensions["multiauth"].provider_map # EmptyDict

\* creating the user providers failed (the auth providers are stored, no
\* user provider is), and a later init_app on the application was refused
C30_WitnessUserProviders ==
    /\ last.op = "init_app" /\ last.step = "check"
    /\ config[K_USER] # EmptyDict
    /\ extensions["multiauth"].auth_providers # EmptyDict
    /\ extensions["multiauth"].user_providers = EmptyDict

---------------------------------------------------------------------------
(* The runtime operations on the registry: login_finished, refresh_user,   *)
(* search_users, search_groups, get_group                                  *)

\* number of items a consumer takes from a search generator
MaxPulls == 3

\* the class attributes supports_refresh, supports_search and has_groups of
\* the user provider classes: the ones that are True
Capabilities ==
    [DirectoryProvider |-> {"supports_refresh", "supports_search"},
     SingleDirectory   |-> {},
     GroupDirectory    |-> {"has_groups"}]

Supports(provider, capability) == capability \in Capabilities[provider.cls]

\* multiauth.login_finished(user), called by the application
LoginFinished(user) ==
    /\ \E r \in {login_finished(user_callback, user)} :
           last' = [op |-> "login_finished", arg |-> user, exc |-> r.exc, calls |-> r.calls]
    /\ UNCHANGED <<config, extensions, user_callback, args, webvars, ldapvars>>

\* multiauth_data: None, or a dict
NoData == [kind |-> "None"]

RefreshRefused_unregistered(user_providers, provider_name) ==
    provider_name \notin DOMAIN user_providers

\* refresh_user raises UserRetrievalFailed: the provider is not registered
\* (KeyError), or its supports_refresh is false
RefreshRefused(user_providers, provider_name) ==
    IF provider_name \notin DOMAIN user_providers THEN TRUE
    ELSE ~Supports(user_providers[provider_name], "supports_refresh")

\* refresh_user(identifier, multiauth_data); outcome is what the provider's
\* refresh_user returns, a UserInfo ("found") or None.
\* calls: the provider methods called, in call order.
refresh_user(ext, identifier, multiauth_data, outcome) ==
    LET base == [op |-> "refresh_user", data |-> multiauth_data, calls |-> << >>,
                 returned |-> ArgNone]
    IN  IF multiauth_data = NoData THEN base @@ [exc |-> "ValueError"]
        ELSE IF "_provider" \notin DOMAIN multiauth_data.d THEN base @@ [exc |-> "KeyError"]
        ELSE IF ~HasState(ext) THEN base @@ [exc |-> "AssertionError"]
        ELSE IF RefreshRefused(ext["multiauth"].user_providers, multiauth_data.d["_provider"])
        THEN base @@ [exc |-> "UserRetrievalFailed"]
        ELSE [base EXCEPT
                 !.calls = <<[provider |-> ext["multiauth"].user_providers[multiauth_data.d["_provider"]].name,
                              method |-> "refresh_user", identifier |-> identifier,
                              data |-> multiauth_data]>>,
                 !.returned = IF outcome = "found"
                              THEN ArgUser(UserInfo(multiauth_data.d["_provider"], EmptyDict))
                              ELSE ArgNone]
             @@ [exc |-> None]

RefreshUser(multiauth_data, outcome) ==
    /\ last' = refresh_user(extensions, "jdoe", multiauth_data, outcome)
    /\ UNCHANGED <<config, extensions, user_callback, args, webvars, ldapvars>>

\* providers=None, or a list of provider names
NoProviders == [given |-> FALSE]

Providers(names) == [given |-> TRUE, names |-> names]

SkipsProvider_nofilter(provider, providers, capability) == ~Supports(provider, capability)

\* the two `continue` statements of search_users / search_groups
SkipsProvider(provider, providers, capability) ==
    IF providers.given /\ provider.name \notin providers.names THEN TRUE
    ELSE ~Supports(provider, capability)

\* The generator of search_users / search_groups from the i-th provider of
\* the iteration on, driven by a consumer that takes `pulls` items.  The
\* body runs only while the consumer asks for an item: a provider's search
\* method is called when the loop reaches it.  hits[n] is what provider n
\* finds.  yielded: the items handed out; queried: the providers whose
\* search method was called, in call order; exhausted: the consumer saw
\* the end of the iteration.
RECURSIVE SearchLoop(_, _, _, _, _, _, _, _)
SearchLoop(user_providers, order, i, providers, capability, hits, pulls, acc) ==
    IF Len(acc.yielded) >= pulls THEN acc @@ [exhausted |-> FALSE]
    ELSE IF i > Len(order) THEN acc @@ [exhausted |-> TRUE]
    ELSE IF SkipsProvider(user_providers[order[i]], providers, capability) THEN
        SearchLoop(user_providers, order, i + 1, providers, capability, hits, pulls, acc)
    ELSE
        LET name == user_providers[order[i]].name
            wanted == pulls - Len(acc.yielded)
            n == IF Len(hits[name]) < wanted THEN Len(hits[name]) ELSE wanted
        IN  SearchLoop(user_providers, order, i + 1, providers, capability, hits, pulls,
                       [yielded |-> acc.yielded \o SubSeq(hits[name], 1, n),
                        queried |-> Append(acc.queried, name)])

\* search_users(providers, ...) with capability supports_search,
\* search_groups(name, providers, ...) with capability has_groups; order is
\* the order itervalues(self.user_providers) yields the providers in
search(ext, order, providers, capability, hits, pulls) ==
    IF pulls = 0 THEN
        [exc |-> None, yielded |-> << >>, queried |-> << >>, exhausted |-> FALSE]
    ELSE IF ~HasState(ext) THEN
        [exc |-> "AssertionError", yielded |-> << >>, queried |-> << >>, exhausted |-> FALSE]
    ELSE
        SearchLoop(ext["multiauth"].user_providers, order, 1, providers, capability, hits, pulls,
                   [yielded |-> << >>, queried |-> << >>])
            @@ [exc |-> None]

\* the orders a dict of the registered user providers can be iterated in
IterationOrders(ext) ==
    IF HasState(ext) THEN Orders(DOMAIN ext["multiauth"].user_providers) ELSE {<< >>}

SearchUsers(providers, hits, pulls, order) ==
    /\ last' = [op |-> "search_users", capability |-> "supports_search", providers |-> providers,
                hits |-> hits, pulls |-> pulls, order |-> order]
               @@ search(extensions, order, providers, "supports_search", hits, pulls)
    /\ UNCHANGED <<config, extensions, user_callback, args, webvars, ldapvars>>

SearchGroups(providers, hits, pulls, order) ==
    /\ last' = [op |-> "search_groups", capability |-> "has_groups", providers |-> providers,
                hits |-> hits, pulls |-> pulls, order |-> order]
               @@ search(extensions, order, providers, "has_groups", hits, pulls)
    /\ UNCHANGED <<config, extensions, user_callback, args, webvars, ldapvars>>

\* get_group(provider, name)
get_group(ext, provider, name) ==
    LET base == [op |-> "get_group", provider |-> provider, calls |-> << >>]
    IN  IF ~HasState(ext) THEN base @@ [exc |-> "AssertionError"]
        ELSE IF provider \notin DOMAIN ext["multiauth"].user_providers
        THEN base @@ [exc |-> "GroupRetrievalFailed"]
        ELSE [base EXCEPT !.calls = <<[provider |-> ext["multiauth"].user_providers[provider].name,
                                       method |-> "get_group", name |-> name]>>]
             @@ [exc |-> None]

GetGroup(provider) ==
    /\ last' = get_group(extensions, provider, "staff")
    /\ UNCHANGED <<config, extensions, user_callback, args, webvars, ldapvars>>

\* the applications of the runtime operations: one form auth provider
\* linked to x and y, and three user providers of which two or one can be
\* searched for users and refreshed, and one or two searched for groups
RuntimeNames == {"x", "y", "z"}

RuntimeUserConfigs ==
    {[n \in RuntimeNames |-> Settings(IF n = "z" THEN "groups" ELSE "dir")],
     [n \in RuntimeNames |-> Settings(IF n = "x" THEN "dir" ELSE "groups")],
     [n \in {"x", "y"} |-> Settings(IF n = "x" THEN "dir" ELSE "single")]}

RuntimeMap ==
    [n \in {"a"} |-> List(<<Dict([user_provider |-> "x"]),
                            Dict([user_provider |-> "y", mapping |-> SomeMapping])>>)]

RuntimeConfigs ==
    {(K_AUTH :> [n \in {"a"} |-> Settings("foo")]) @@ (K_USER :> u) @@ (K_MAP :> RuntimeMap) @@ f :
        u \in RuntimeUserConfigs,
        f \in {EmptyDict, (K_ALL :> TRUE) @@ (K_REQUIRE :> FALSE)}}

RuntimeCallbacks == {"on_login", "on_signin"}

RuntimeUsers == {ArgNone, ArgUser(UserInfo("x", EmptyDict))}

RefreshDatas ==
    {NoData, Dict(EmptyDict)} \cup {Dict([_provider |-> n]) : n \in RuntimeNames \cup {"ghost"}}

ProviderFilters == {NoProviders, Providers({"x", "z"}), Providers({"y"})}

HitChoices ==
    {[n \in RuntimeNames |-> IF n = "y" THEN <<"u1", "u2">> ELSE <<"u1">>],
     [n \in RuntimeNames |-> IF n = "x" THEN << >> ELSE <<"u2">>]}

\* the login requests: the form displayed, and a submission whose login
\* the provider accepts
RuntimeForms == {form \in FormRequests : form.submitted => form.valid /\ form.login = "ok"}

InitRuntime ==
    /\ config \in RuntimeConfigs
    /\ extensions = EmptyDict
    /\ user_callback = None
    /\ last = Start
    /\ NoArgs /\ NoLdap
    /\ session = EmptyDict
    /\ flashes = << >>

NextRuntime ==
    \/ InitApp
    \/ \E callback \in RuntimeCallbacks : UserHandler(callback)
    \/ \E user \in RuntimeUsers : LoginFinished(user)
    \/ \E found \in SUBSET LinkIndexes(extensions, "a") : HandleAuthInfo("a", found)
    \/ \E data \in RefreshDatas, outcome \in {"found", "gone"} : RefreshUser(data, outcome)
    \/ \E providers \in ProviderFilters, hits \in HitChoices, pulls \in 0..MaxPulls :
       \E order \in IterationOrders(extensions) : SearchUsers(providers, hits, pulls, order)
    \/ \E providers \in ProviderFilters, hits \in HitChoices, pulls \in 0..MaxPulls :
       \E order \in IterationOrders(extensions) : SearchGroups(providers, hits, pulls, order)
    \/ \E provider \in RuntimeNames \cup {"ghost"} : GetGroup(provider)
    \/ \E form \in RuntimeForms : \E found \in FoundFor("a", form) :
           ProcessLogin("a", NoNext, form, found)

SpecRuntime == InitRuntime /\ [][NextRuntime]_vars

---------------------------------------------------------------------------
(* Properties of the runtime operations, checked under SpecRuntime         *)

\* C21: login_finished before a callback is registered fails with
\* AssertionError and calls nothing; once a callback is registered,
\* login_finished(x) makes exactly one call, of the callback registered
\* last, with x.  Registering a callback returns that callback.
C21_CallbackInvokedOnce ==
    /\ last.op = "login_finished" =>
           IF user_callback = None
           THEN last.exc = "AssertionError" /\ last.calls = << >>
           ELSE /\ last.exc = None
                /\ last.calls = <<[callback |-> user_callback, arg |-> last.arg]>>
    /\ last.op = "user_handler" => last.returned = user_callback /\ last.exc = None

\* login_finished handed a user to the registered callback
C21_Witness ==
    /\ last.op = "login_finished"
    /\ user_callback = "on_signin"
    /\ last.arg # ArgNone
    /\ Len(last.calls) = 1

\* login_finished with no callback registered
C21_WitnessUnregistered ==
    /\ last.op = "login_finished"
    /\ user_callback = None
    /\ last.exc = "AssertionError"

\* refresh_user was called with refresh data that name a provider
Refreshed ==
    /\ last.op = "refresh_user"
    /\ HasState(extensions)
    /\ last.data # NoData
    /\ "_provider" \in DOMAIN last.data.d

RefreshProvider == last.data.d["_provider"]

RegisteredUserProviders == extensions["multiauth"].user_providers

\* C23: refresh_user calls refresh_user of exactly the user provider the
\* refresh data name, once and with these data, when that provider is
\* registered and supports refresh; otherwise it raises
\* UserRetrievalFailed and calls no provider.
C23_RefreshDelegates ==
    Refreshed =>
        IF /\ RefreshProvider \in DOMAIN RegisteredUserProviders
           /\ Supports(RegisteredUserProviders[RefreshProvider], "supports_refresh")
        THEN /\ last.exc = None
             /\ Len(last.calls) = 1
             /\ last.calls[1].provider = RefreshProvider
             /\ last.calls[1].method = "refresh_user"
             /\ last.calls[1].data = last.data
        ELSE /\ last.exc = "UserRetrievalFailed"
             /\ last.calls = << >>

\* a refresh delegated to provider x, with y and z registered as well
C23_Witness ==
    /\ Refreshed
    /\ RefreshProvider = "x"
    /\ {"y", "z"} \subseteq DOMAIN RegisteredUserProviders
    /\ last.exc = None
    /\ last.calls # << >>

\* a refresh refused because the registered provider does not support it
C23_WitnessUnsupported ==
    /\ Refreshed
    /\ RefreshProvider \in DOMAIN RegisteredUserProviders
    /\ last.exc = "UserRetrievalFailed"

\* a search generator was created and asked for at least one item
Searched ==
    /\ last.op \in {"search_users", "search_groups"}
    /\ HasState(extensions)
    /\ last.pulls > 0

SearchCapability == IF last.op = "search_users" THEN "supports_search" ELSE "has_groups"

\* the registered providers the search is to query
Eligible ==
    {n \in DOMAIN RegisteredUserProviders :
        /\ Supports(RegisteredUserProviders[n], SearchCapability)
        /\ last.providers.given => n \in last.providers.names}

\* ... in the order of the iteration
EligibleOrder == SelectSeq(last.order, LAMBDA n : n \in Eligible)

RECURSIVE Concat(_, _)
Concat(hits, names) ==
    IF names = << >> THEN << >> ELSE hits[Head(names)] \o Concat(hits, Tail(names))

AllHits == Concat(last.hits, EligibleOrder)

\* C24: search_users (search_groups) queries only registered providers
\* that support search (groups) and are not excluded by the providers
\* filter; it yields the concatenation of their results in iteration order,
\* duplicates kept, as far as the consumer takes items; and a provider is
\* queried exactly when the consumer asks for more items than the providers
\* before it have yielded, so all of them are when the iteration is run to
\* its end and none is when no item is asked for.
C24_SearchFanOut ==
    /\ last.op \in {"search_users", "search_groups"} /\ last.pulls = 0 =>
           last.queried = << >> /\ last.yielded = << >>
    /\ Searched =>
           /\ last.exc = None
           /\ Range(last.queried) \subseteq Eligible
           /\ Len(last.queried) <= Len(EligibleOrder)
           /\ \A k \in 1..Len(EligibleOrder) :
                  (k <= Len(last.queried)) <=>
                      Len(Concat(last.hits, SubSeq(EligibleOrder, 1, k - 1))) < last.pulls
           /\ \A k \in 1..Len(last.queried) : last.queried[k] = EligibleOrder[k]
           /\ last.yielded =
                  SubSeq(AllHits, 1, IF Len(AllHits) < last.pulls THEN Len(AllHits) ELSE last.pulls)
           /\ last.exhausted <=> Len(AllHits) < last.pulls

\* a group search run to its end over two providers that found the same
\* group, a third provider being registered and not queried
C24_Witness ==
    /\ Searched
    /\ last.op = "search_groups"
    /\ last.exhausted
    /\ last.yielded = <<"u2", "u2">>
    /\ Len(last.queried) = 2
    /\ Cardinality(DOMAIN RegisteredUserProviders) = 3

\* a user search that stopped after the first item: the second provider to
\* search was not queried
C24_WitnessLazy ==
    /\ Searched
    /\ last.op = "search_users"
    /\ last.pulls = 1
    /\ Len(EligibleOrder) = 2
    /\ Len(last.queried) = 1

\* a user search the providers filter excluded a searchable provider from
C24_WitnessFiltered ==
    /\ Searched
    /\ last.op = "search_users"
    /\ last.exhausted
    /\ \E n \in DOMAIN RegisteredUserProviders \ Eligible :
           Supports(RegisteredUserProviders[n], "supports_search")
    /\ last.queried # << >>

\* C28: once init_app has run on the application (its state is stored), no
\* operation changes the state: handle_auth_info, search_users,
\* search_groups, refresh_user, get_group, process_login, login_finished,
\* user_handler and a further init_app leave the registered auth
\* providers, the user providers and the provider map, links and field
\* mappings included, as they are.
C28_RegistryFrame ==
    [][ HasState(extensions) =>
            /\ HasState(extensions')
            /\ extensions'["multiauth"] = extensions["multiauth"]
      ]_vars

\* handle_auth_info queried the provider of a link that has no field
\* mapping, and the link still has none
C28_Witness ==
    /\ HasState(extensions)
    /\ last.op = "handle_auth_info"
    /\ last.queried # << >>
    /\ "mapping" \notin DOMAIN extensions["multiauth"].provider_map["a"][1]
    /\ DOMAIN extensions["multiauth"].user_providers # {}

\* a login through the form resolved the user
C28_WitnessLogin ==
    /\ HasState(extensions)
    /\ last.op = "process_login"
    /\ last.calls # << >>

====
